---- MODULE Spec2Model ----
(***************************************************************************)
(* Model of the Schwab brokerage client of money-pies                      *)
(* (internal/pkg/brokerages/schwab/client.go) and of the command that      *)
(* authorizes it (cmd/oauth-flow/main.go).                                 *)
(*                                                                         *)
(* Spec           the OAuth credential held by the Client, its mirror in   *)
(*                the token file, the authorization-code exchange, the     *)
(*                refresh grant and the authenticated transport            *)
(*                (makeRequest) under GetAccounts, one call at a time.     *)
(* SpecAdapter    the seven business methods over the vendor's answers:    *)
(*                status handling and the conversion of accounts,          *)
(*                positions, orders and order statuses.                    *)
(* SpecRoundTrip  a credential saved, then loaded into a fresh client.     *)
(* SpecFlow       cmd/oauth-flow: main, the session goroutine and the      *)
(*                callback handlers around the unbuffered channel.         *)
(* SpecConcurrent two transport calls running concurrently on one client,  *)
(*                statement by statement.                                  *)
(* SpecLifecycle  one order placed and then read again with                *)
(*                GetOrderStatus and GetRecentOrders.                      *)
(* SpecFlowFair   SpecFlow with the fairness of the Go scheduler.          *)
(*                                                                         *)
(* Time is the wall clock in seconds, counted from the instant T at which  *)
(* the scenario's first credential is issued.  In Spec, SpecAdapter and    *)
(* SpecRoundTrip every call of the client is one action; the call's        *)
(* observable outcome is kept in `last` until the caller takes it (Return).*)
(***************************************************************************)
EXTENDS Integers, FiniteSets, Sequences, TLC

VARIABLES
    token,   \* Client.token: NoToken (nil) or a Token record
    file,    \* content of config.TokenFile: Missing, Malformed or a JSON record
    now,     \* the wall clock, time.Now()
    last,    \* outcome of the call in progress, Idle between calls
    calls,   \* the transport calls running concurrently on the client; in
             \* SpecLifecycle, what the caller has seen of its order
    flow     \* cmd/oauth-flow: main, the session goroutine, the handlers

vars == <<token, file, now, last, calls, flow>>

----------------------------------------------------------------------------
(* Program constants *)

\* makeRequest: time.Now().Add(5*time.Minute), in seconds
SafetyWindow == 300

\* NewClient: http.Client{Timeout: 30 * time.Second}, in seconds
HttpTimeout == 30

(* Bounds *)

\* the clock stops at MaxTime
MaxTime == 1800

\* callback requests that reach the oauth-flow server
MaxCallbacks == 3

\* Instants the clock takes: issue (0), a call well before the safety
\* window (1000), the window's first instant for a 1800 s credential (1500),
\* a call inside it (1796), and expiry onwards (1800..MaxTime).
Instants == {0, 1000, 1500, 1796} \cup (1800..MaxTime)

\* values the vendor (or a caller of SetAccessToken) supplies
AccessTokens == {"a1", "a2"}
RefreshTokens == {"", "r1"}
ExpiresIns == {0, 1800}

\* instants a network round trip started at t can end at
Elapsed(t) == {u \in Instants : t <= u /\ u <= t + HttpTimeout}

----------------------------------------------------------------------------
(* Token and its JSON form *)

NoToken == [nil |-> TRUE]

\* no transport call is running; the oauth-flow command is not running
NoCalls == <<>>
NoFlow == [main |-> "not started"]

\* time.Time{}: before every instant of the clock, no monotonic reading
ZeroTime == [wall |-> -1, mono |-> FALSE]

\* type Token. expires_at is a time.Time: its wall-clock instant and whether
\* it carries a monotonic-clock reading (as values made from time.Now() do).
MkToken(a, r, ei, ea) ==
    [access_token |-> a, refresh_token |-> r, expires_in |-> ei,
     token_type |-> "Bearer", scope |-> "api", expires_at |-> ea]

Missing == [kind |-> "missing"]
Malformed == [kind |-> "malformed"]

\* a Marshal that writes every expires_at as the zero time
MarshalZeroExpiry(tok) ==
    [kind |-> "json",
     access_token |-> tok.access_token, refresh_token |-> tok.refresh_token,
     expires_in |-> tok.expires_in, token_type |-> tok.token_type,
     scope |-> tok.scope, expires_at |-> ZeroTime.wall]

\* json.Marshal(token): time.Time is written as RFC 3339 text, which keeps
\* the wall-clock instant and drops the monotonic reading.
Marshal(tok) ==
    [kind |-> "json",
     access_token |-> tok.access_token, refresh_token |-> tok.refresh_token,
     expires_in |-> tok.expires_in, token_type |-> tok.token_type,
     scope |-> tok.scope, expires_at |-> tok.expires_at.wall]

\* json.Unmarshal(rawToken, &token) of a well-formed file
Unmarshal(raw) ==
    [access_token |-> raw.access_token, refresh_token |-> raw.refresh_token,
     expires_in |-> raw.expires_in, token_type |-> raw.token_type,
     scope |-> raw.scope,
     expires_at |-> [wall |-> raw.expires_at, mono |-> FALSE]]

\* outcomes of os.WriteFile(name, data, 0644): written; the open fails and
\* the file is left as it was; the open (O_TRUNC) succeeds and the write
\* fails, leaving a truncated file.
WriteOutcomes == {"ok", "open_failed", "truncated"}

WriteFile(old, data, w) ==
    CASE w = "ok" -> data
      [] w = "open_failed" -> old
      [] OTHER -> Malformed

----------------------------------------------------------------------------
(* The outcome record of a call *)

Idle ==
    [op |-> "idle",
     err |-> "",            \* the error returned to the caller, "" for nil
     cause |-> "",          \* the error err wraps (%w), "" if none
     errStatus |-> 0,       \* the HTTP status the error text carries
     respStatus |-> 0,      \* the HTTP status of the business response
     respBody |-> "",       \* its body: "json", "unreadable" or "malformed"
     refreshed |-> FALSE,   \* makeRequest called refreshToken
     refreshErr |-> "",     \* what that refreshToken returned
     tokenReqs |-> 0,       \* requests sent to the token endpoint
     bizReqs |-> 0,         \* requests sent to the vendor API
     at |-> -1,             \* the clock when the call started
     checkAt |-> -1,        \* the clock at the call's IsAuthenticated()
     stampAt |-> -1,        \* the clock when the call stamped ExpiresAt
     authed |-> FALSE,      \* the value IsAuthenticated() returned
     bearer |-> "",         \* access token of the Authorization header
     saved |-> FALSE,       \* the call went through SetAccessToken
     granted |-> NoToken,   \* the token it decoded from the vendor's answer
     writeFailed |-> FALSE, \* os.WriteFile returned an error
     loadFailed |-> FALSE]  \* os.ReadFile or json.Unmarshal returned an error

----------------------------------------------------------------------------
(* Credential store and OAuth session *)

\* Client.SetAccessToken: c.token = &token, then the token is marshalled and
\* written to the token file; the error of os.WriteFile is not looked at.
\* (json.Marshal fails only for a year outside 0..9999, which no instant of
\* the model is.)  The result is the new <<token, file>> pair.
SetAccessToken(tok, f, w) ==
    [token |-> tok, file |-> WriteFile(f, Marshal(tok), w)]

\* Client.SetAccessTokenFromFile: a missing or malformed file leaves c.token
\* as it was and nothing is reported; otherwise c.token is the parsed file.
SetAccessTokenFromFile(tok, f) ==
    IF f = Missing THEN tok
    ELSE IF f = Malformed THEN tok
    ELSE Unmarshal(f)

\* an IsAuthenticated that still holds at the instant of expiry
IsAuthenticatedInclusive(tok, t) ==
    tok /= NoToken /\ t <= tok.expires_at.wall

\* Client.IsAuthenticated: c.token != nil && time.Now().Before(ExpiresAt)
IsAuthenticated(tok, t) ==
    tok /= NoToken /\ t < tok.expires_at.wall

\* What the token endpoint can answer: no answer, an unreadable body, a
\* status other than 200, a body that is not JSON, or a token.  A body that
\* lacks "refresh_token" or "expires_in" parses to "" and 0.
TokenFailures == {"network_error", "read_error", "bad_status", "malformed"}

TokenResponses ==
    {[outcome |-> o, access_token |-> "", refresh_token |-> "", expires_in |-> 0] :
        o \in TokenFailures}
    \cup [outcome : {"ok"}, access_token : AccessTokens,
          refresh_token : RefreshTokens, expires_in : ExpiresIns]

\* var token Token; json.Unmarshal(body, &token): the body has no usable
\* expires_at, the field is the zero time until it is stamped
ParseTokenResponse(resp) ==
    MkToken(resp.access_token, resp.refresh_token, resp.expires_in, ZeroTime)

\* a stamp that forgets the lifetime
StampExpiryNow(tok, t) ==
    [tok EXCEPT !.expires_at = [wall |-> t, mono |-> TRUE]]

\* token.ExpiresAt = time.Now().Add(time.Duration(token.ExpiresIn) * time.Second)
StampExpiry(tok, t) ==
    [tok EXCEPT !.expires_at = [wall |-> t + tok.expires_in, mono |-> TRUE]]

\* a session whose failed call drops the credential held
SessionFailClearing(tok, f, t, e, st, sent) ==
    [err |-> e, errStatus |-> st, token |-> IF e /= "" THEN NoToken ELSE tok,
     file |-> f, now |-> t, tokenReqs |-> sent, stampAt |-> -1,
     saved |-> FALSE, writeFailed |-> FALSE]

\* the result of a session call that failed (or, with e = "", was not made):
\* the credential and the file are as they were
SessionFail(tok, f, t, e, st, sent) ==
    [err |-> e, errStatus |-> st, token |-> tok, file |-> f, now |-> t,
     tokenReqs |-> sent, stampAt |-> -1, saved |-> FALSE, writeFailed |-> FALSE]

\* the result of a session call that parsed a token response at t2
SessionStore(f, resp, t2, w) ==
    LET Stored(set) ==
            [err |-> "", errStatus |-> 0, token |-> set.token, file |-> set.file,
             now |-> t2, tokenReqs |-> 1, stampAt |-> t2, saved |-> TRUE,
             writeFailed |-> (w /= "ok")]
    IN  Stored(SetAccessToken(StampExpiry(ParseTokenResponse(resp), t2), f, w))

\* an exchange that stores what it decoded of a body that does not parse
ExchangeStoringUnparsed(tok, f, t, resp, t2, w) ==
    CASE resp.outcome = "network_error" ->
            SessionFail(tok, f, t2, "failed to exchange code for token", 0, 1)
      [] resp.outcome = "read_error" ->
            SessionFail(tok, f, t2, "failed to read token response", 0, 1)
      [] resp.outcome = "bad_status" ->
            SessionFail(tok, f, t2, "token request failed with status", 400, 1)
      [] resp.outcome = "malformed" ->
            [SessionStore(f, resp, t2, w) EXCEPT
                 !.err = "failed to parse token response", !.saved = FALSE]
      [] OTHER -> SessionStore(f, resp, t2, w)

\* Client.ExchangeAuthCodeForAccessToken, called at t; the round trip to the
\* token endpoint ends at t2 with resp; w is the outcome of the file write.
ExchangeAuthCodeForAccessToken(tok, f, t, resp, t2, w) ==
    CASE resp.outcome = "network_error" ->
            SessionFail(tok, f, t2, "failed to exchange code for token", 0, 1)
      [] resp.outcome = "read_error" ->
            SessionFail(tok, f, t2, "failed to read token response", 0, 1)
      [] resp.outcome = "bad_status" ->
            SessionFail(tok, f, t2, "token request failed with status", 400, 1)
      [] resp.outcome = "malformed" ->
            SessionFail(tok, f, t2, "failed to parse token response", 0, 1)
      [] OTHER -> SessionStore(f, resp, t2, w)

\* a refresh that only checks that a credential is held
NoRefreshTokenNilOnly(tok) == tok = NoToken

\* refreshToken: if c.token == nil || c.token.RefreshToken == ""
NoRefreshToken(tok) ==
    tok = NoToken \/ tok.refresh_token = ""

\* a refresh that keeps the refresh token held when the answer has none
refreshTokenKeeping(tok, f, t, resp, t2, w) ==
    IF NoRefreshToken(tok)
    THEN SessionFail(tok, f, t, "no refresh token available", 0, 0)
    ELSE CASE resp.outcome = "network_error" ->
                 SessionFail(tok, f, t2, "failed to refresh token", 0, 1)
           [] resp.outcome = "read_error" ->
                 SessionFail(tok, f, t2, "failed to read refresh token response", 0, 1)
           [] resp.outcome = "bad_status" ->
                 SessionFail(tok, f, t2, "refresh token request failed with status", 400, 1)
           [] resp.outcome = "malformed" ->
                 SessionFail(tok, f, t2, "failed to parse refresh token response", 0, 1)
           [] OTHER -> SessionStore(f, IF resp.refresh_token = ""
                                       THEN [resp EXCEPT !.refresh_token = tok.refresh_token]
                                       ELSE resp, t2, w)

\* Client.refreshToken, called at t
refreshToken(tok, f, t, resp, t2, w) ==
    IF NoRefreshToken(tok)
    THEN SessionFail(tok, f, t, "no refresh token available", 0, 0)
    ELSE CASE resp.outcome = "network_error" ->
                 SessionFail(tok, f, t2, "failed to refresh token", 0, 1)
           [] resp.outcome = "read_error" ->
                 SessionFail(tok, f, t2, "failed to read refresh token response", 0, 1)
           [] resp.outcome = "bad_status" ->
                 SessionFail(tok, f, t2, "refresh token request failed with status", 400, 1)
           [] resp.outcome = "malformed" ->
                 SessionFail(tok, f, t2, "failed to parse refresh token response", 0, 1)
           [] OTHER -> SessionStore(f, resp, t2, w)

----------------------------------------------------------------------------
(* Authenticated transport and the business call *)

\* a transport that also refreshes at the first instant of the safety window
NeedsRefreshInclusive(tok, t) ==
    tok /= NoToken /\ t + SafetyWindow >= tok.expires_at.wall

\* makeRequest: c.token != nil && time.Now().Add(5*time.Minute).After(ExpiresAt)
NeedsRefresh(tok, t) ==
    tok /= NoToken /\ t + SafetyWindow > tok.expires_at.wall

\* a transport that goes on after a failed refresh
RefreshFailedIgnored(r) == FALSE

\* makeRequest: if err := c.refreshToken(ctx); err != nil { return nil, ... }
RefreshFailed(r) == r.err /= ""

\* a transport that only checks that a credential is held
NotAuthenticatedNilOnly(tok, t) == tok = NoToken

\* makeRequest: if !c.IsAuthenticated() { return nil, "not authenticated" }
NotAuthenticated(tok, t) == ~IsAuthenticated(tok, t)

\* What the vendor API can answer to a business request
Statuses == {200, 401, 500}
Bodies == {"json", "unreadable", "malformed"}
NoResponse == [outcome |-> "network_error", status |-> 0, body |-> "",
               data |-> <<>>, location |-> <<>>]
BusinessResponses ==
    {NoResponse} \cup [outcome : {"response"}, status : Statuses, body : Bodies,
                       data : {<<>>}, location : {<<>>}]

\* inputs of a transport call: the refresh round trip (its answer, the instant
\* it ends, the outcome of the file write) and the business round trip
RefreshInputs(t) ==
    {[resp |-> resp, t2 |-> t2, w |-> w] :
        resp \in TokenResponses, t2 \in Elapsed(t), w \in WriteOutcomes}
BusinessInputs(t) ==
    [resp : BusinessResponses, t3 : Elapsed(t)]

\* a transport that sends the business request again after a failure
DoRetrying(checked, bin) ==
    IF bin.resp.outcome = "network_error"
    THEN [checked EXCEPT !.bizReqs = 2, !.now = bin.t3,
                         !.err = "request failed", !.cause = "network_error"]
    ELSE [checked EXCEPT !.bizReqs = IF bin.resp.status >= 500 THEN 2 ELSE 1,
                         !.now = bin.t3, !.resp = bin.resp]

\* makeRequest: resp, err := c.httpClient.Do(req), called once, after the
\* checks, with the bearer header; a failure is returned, not retried
Do(checked, bin) ==
    IF bin.resp.outcome = "network_error"
    THEN [checked EXCEPT !.bizReqs = 1, !.now = bin.t3,
                         !.err = "request failed", !.cause = "network_error"]
    ELSE [checked EXCEPT !.bizReqs = 1, !.now = bin.t3, !.resp = bin.resp]

\* a transport that builds its Authorization header before it refreshes
makeRequestStaleBearer(tok, f, t, rin, bin) ==
    LET Send(checked) == Do(checked, bin)
        \* the two checks, r being the result of the refresh (if any)
        Checks(refresh, r, base) ==
            IF refresh /\ RefreshFailed(r)
            THEN [base EXCEPT !.err = "failed to refresh token", !.cause = r.err]
            ELSE IF NotAuthenticated(r.token, r.now)
            THEN [base EXCEPT !.err = "not authenticated", !.checkAt = r.now,
                              !.authed = IsAuthenticated(r.token, r.now)]
            ELSE Send([base EXCEPT !.checkAt = r.now,
                                   !.authed = IsAuthenticated(r.token, r.now),
                                   !.bearer = IF tok = NoToken THEN ""
                                              ELSE tok.access_token])
        Run(refresh, r) ==
            Checks(refresh, r,
                   [err |-> "", cause |-> "", token |-> r.token, file |-> r.file,
                    now |-> r.now, refreshed |-> refresh,
                    refreshErr |-> IF refresh THEN r.err ELSE "",
                    tokenReqs |-> r.tokenReqs, bizReqs |-> 0,
                    checkAt |-> -1, authed |-> FALSE, stampAt |-> r.stampAt,
                    bearer |-> "", saved |-> r.saved, writeFailed |-> r.writeFailed,
                    resp |-> NoResponse])
    IN  Run(NeedsRefresh(tok, t),
            IF NeedsRefresh(tok, t)
            THEN refreshToken(tok, f, t, rin.resp, rin.t2, rin.w)
            ELSE SessionFail(tok, f, t, "", 0, 0))

\* Client.makeRequest, called at t.  The result carries what the call did
\* (requests sent, the credential it left) and err/resp, what it returned.
makeRequest(tok, f, t, rin, bin) ==
    LET Send(checked) == Do(checked, bin)
        \* the two checks, r being the result of the refresh (if any)
        Checks(refresh, r, base) ==
            IF refresh /\ RefreshFailed(r)
            THEN [base EXCEPT !.err = "failed to refresh token", !.cause = r.err]
            ELSE IF NotAuthenticated(r.token, r.now)
            THEN [base EXCEPT !.err = "not authenticated", !.checkAt = r.now,
                              !.authed = IsAuthenticated(r.token, r.now)]
            ELSE Send([base EXCEPT !.checkAt = r.now,
                                   !.authed = IsAuthenticated(r.token, r.now),
                                   !.bearer = IF r.token = NoToken THEN ""
                                              ELSE r.token.access_token])
        Run(refresh, r) ==
            Checks(refresh, r,
                   [err |-> "", cause |-> "", token |-> r.token, file |-> r.file,
                    now |-> r.now, refreshed |-> refresh,
                    refreshErr |-> IF refresh THEN r.err ELSE "",
                    tokenReqs |-> r.tokenReqs, bizReqs |-> 0,
                    checkAt |-> -1, authed |-> FALSE, stampAt |-> r.stampAt,
                    bearer |-> "", saved |-> r.saved, writeFailed |-> r.writeFailed,
                    resp |-> NoResponse])
    IN  Run(NeedsRefresh(tok, t),
            IF NeedsRefresh(tok, t)
            THEN refreshToken(tok, f, t, rin.resp, rin.t2, rin.w)
            ELSE SessionFail(tok, f, t, "", 0, 0))

\* ---- values of the vendor API and their conversion ----

\* A Go pointer (*float64): nil, or a pointer to v
Nil == [nil |-> TRUE]
Ptr(v) == [nil |-> FALSE, v |-> v]

\* float64 results: a finite value is the exact quotient num/den in lowest
\* terms with den > 0; a division by zero gives NaN (0/0) or an infinity
RECURSIVE GCD(_, _)
GCD(a, b) == IF b = 0 THEN a ELSE GCD(b, a % b)
Abs(a) == IF a < 0 THEN -a ELSE a
Finite(n, d) ==
    LET Reduce(g, sgn) == [kind |-> "finite", num |-> (sgn * n) \div g,
                           den |-> (sgn * d) \div g]
    IN  Reduce(GCD(Abs(n), Abs(d)), IF d < 0 THEN -1 ELSE 1)
Float(n) == Finite(n, 1)
NaN == [kind |-> "NaN", num |-> 0, den |-> 0]
Inf(sgn) == [kind |-> "Inf", num |-> sgn, den |-> 0]
\* a / b on float64 operands that hold the integers a and b
FloatDiv(a, b) ==
    IF b /= 0 THEN Finite(a, b)
    ELSE IF a = 0 THEN NaN
    ELSE Inf(IF a < 0 THEN -1 ELSE 1)
\* x * k, k a positive integer
FloatTimes(x, k) ==
    IF x.kind = "finite" THEN Finite(x.num * k, x.den) ELSE x

\* an Account whose total is the one the vendor supplies
AccountVendorTotal(sa) ==
    [AccountID |-> sa.accountId, AccountNumber |-> sa.accountNumber,
     Type |-> sa.type, CashBalance |-> sa.cashBalance,
     BuyingPower |-> sa.buyingPower, MarketValue |-> sa.longMarketValue,
     TotalValue |-> sa.liquidationValue]

\* GetAccounts: the brokerage.Account made of one decoded securitiesAccount;
\* the decoding keeps accountNumber, type, accountId, cashBalance, buyingPower
\* and longMarketValue, every other field of the vendor record is dropped
Account(sa) ==
    [AccountID |-> sa.accountId, AccountNumber |-> sa.accountNumber,
     Type |-> sa.type, CashBalance |-> sa.cashBalance,
     BuyingPower |-> sa.buyingPower, MarketValue |-> sa.longMarketValue,
     TotalValue |-> sa.cashBalance + sa.longMarketValue]

\* a conversion that divides the market value by the quantity unguarded
PositionUnguarded(p) ==
    LET Derive(quantity, unrealizedPL) ==
            [Symbol |-> p.symbol, Quantity |-> quantity,
             AveragePrice |-> p.averagePrice,
             CurrentPrice |-> FloatDiv(p.marketValue, quantity),
             MarketValue |-> p.marketValue, UnrealizedPL |-> unrealizedPL,
             UnrealizedPLPct |->
                 IF p.averagePrice /= 0
                 THEN FloatTimes(FloatDiv(unrealizedPL, p.averagePrice * quantity), 100)
                 ELSE Float(0)]
        Net(quantity) ==
            Derive(quantity, p.marketValue - (p.averagePrice * quantity))
    IN  Net(p.longQuantity - p.shortQuantity)

\* GetPositions: the brokerage.Position made of one decoded position
Position(p) ==
    LET Derive(quantity, unrealizedPL) ==
            [Symbol |-> p.symbol, Quantity |-> quantity,
             AveragePrice |-> p.averagePrice,
             CurrentPrice |-> IF quantity /= 0
                              THEN FloatDiv(p.marketValue, quantity)
                              ELSE Float(0),
             MarketValue |-> p.marketValue, UnrealizedPL |-> unrealizedPL,
             UnrealizedPLPct |->
                 IF p.averagePrice /= 0
                 THEN FloatTimes(FloatDiv(unrealizedPL, p.averagePrice * quantity), 100)
                 ELSE Float(0)]
        Net(quantity) ==
            Derive(quantity, p.marketValue - (p.averagePrice * quantity))
    IN  Net(p.longQuantity - p.shortQuantity)

\* brokerage.OrderType and OrderStatus
OrderTypeMarket == "MARKET"
OrderTypeLimit == "LIMIT"
OrderStatusPending == "PENDING"
OrderStatusFilled == "FILLED"
OrderStatusCancelled == "CANCELLED"
OrderStatusRejected == "REJECTED"

\* PlaceOrder: the order sent to the vendor; the price field is added only
\* to a limit order that has a LimitPrice
SchwabOrder(order) ==
    LET Base == [orderType |-> order.Type, session |-> "NORMAL",
                 duration |-> "DAY", orderStrategyType |-> "SINGLE",
                 instruction |-> order.Action, quantity |-> order.Quantity,
                 symbol |-> order.Symbol, assetType |-> "EQUITY"]
    IN  IF order.Type = OrderTypeLimit /\ order.LimitPrice /= Nil
        THEN Base @@ [price |-> order.LimitPrice.v]
        ELSE Base

\* A string is the sequence of its characters.  unicode.ToUpper of the
\* characters that have an upper case: the letters a-z and, outside ASCII,
\* U+0131 (dotless i) and U+017F (long s), whose upper cases are I and S
UpperCase ==
    [a |-> "A", b |-> "B", c |-> "C", d |-> "D", e |-> "E", f |-> "F",
     g |-> "G", h |-> "H", i |-> "I", j |-> "J", k |-> "K", l |-> "L",
     m |-> "M", n |-> "N", o |-> "O", p |-> "P", q |-> "Q", r |-> "R",
     s |-> "S", t |-> "T", u |-> "U", v |-> "V", w |-> "W", x |-> "X",
     y |-> "Y", z |-> "Z", dotless_i |-> "I", long_s |-> "S"]

\* strings.ToUpper
ToUpper(str) ==
    [i \in 1..Len(str) |-> IF str[i] \in DOMAIN UpperCase THEN UpperCase[str[i]]
                                                           ELSE str[i]]

\* a conversion that compares the vendor's status as it is
convertOrderStatusExact(status) ==
    CASE status = <<"F", "I", "L", "L", "E", "D">> -> OrderStatusFilled
      [] status = <<"C", "A", "N", "C", "E", "L", "E", "D">> -> OrderStatusCancelled
      [] status = <<"C", "A", "N", "C", "E", "L", "L", "E", "D">> -> OrderStatusCancelled
      [] status = <<"R", "E", "J", "E", "C", "T", "E", "D">> -> OrderStatusRejected
      [] OTHER -> OrderStatusPending

\* Client.convertOrderStatus: switch strings.ToUpper(status)
convertOrderStatus(status) ==
    LET Switch(upper) ==
            CASE upper = <<"F", "I", "L", "L", "E", "D">> -> OrderStatusFilled
              [] upper = <<"C", "A", "N", "C", "E", "L", "E", "D">> -> OrderStatusCancelled
              [] upper = <<"C", "A", "N", "C", "E", "L", "L", "E", "D">> -> OrderStatusCancelled
              [] upper = <<"R", "E", "J", "E", "C", "T", "E", "D">> -> OrderStatusRejected
              [] OTHER -> OrderStatusPending
    IN  Switch(ToUpper(status))

\* fmt.Sprintf("%d", n): the decimal digits of n
Digits == <<"0", "1", "2", "3", "4", "5", "6", "7", "8", "9">>
RECURSIVE Decimal(_)
Decimal(n) ==
    IF n < 0 THEN <<"-">> \o Decimal(-n)
    ELSE IF n < 10 THEN <<Digits[n + 1]>>
    ELSE Decimal(n \div 10) \o <<Digits[(n % 10) + 1]>>

\* time.Parse(time.RFC3339, text): a text is its layout and the instant it
\* denotes; a text in another layout is refused
ParseTime(text) ==
    IF text.layout = "RFC3339"
    THEN [ok |-> TRUE, time |-> [wall |-> text.wall, mono |-> FALSE]]
    ELSE [ok |-> FALSE, time |-> ZeroTime]

\* an Order that is reported as it was when placed, whatever the vendor says
OrderAsPlaced(so, raw) ==
    [ID |-> Decimal(so.orderId),
     Status |-> OrderStatusPending,
     Quantity |-> so.quantity,
     FilledQty |-> so.filledQuantity,
     FilledPrice |-> so.price,
     Type |-> so.orderType,
     RawResponse |-> raw,
     Symbol |-> IF Len(so.orderLegCollection) > 0
                THEN so.orderLegCollection[1].symbol ELSE "",
     Action |-> IF Len(so.orderLegCollection) > 0
                THEN so.orderLegCollection[1].instruction ELSE "",
     SubmittedAt |-> IF so.enteredTime.layout /= "empty" /\ ParseTime(so.enteredTime).ok
                     THEN ParseTime(so.enteredTime).time ELSE ZeroTime,
     LimitPrice |-> Nil,
     FilledAt |-> Nil]

\* GetOrderStatus, GetRecentOrders: the brokerage.Order made of one decoded
\* vendor order; raw is the RawResponse (GetRecentOrders leaves it nil)
Order(so, raw) ==
    [ID |-> Decimal(so.orderId),
     Status |-> convertOrderStatus(so.status),
     Quantity |-> so.quantity,
     FilledQty |-> so.filledQuantity,
     FilledPrice |-> so.price,
     Type |-> so.orderType,
     RawResponse |-> raw,
     Symbol |-> IF Len(so.orderLegCollection) > 0
                THEN so.orderLegCollection[1].symbol ELSE "",
     Action |-> IF Len(so.orderLegCollection) > 0
                THEN so.orderLegCollection[1].instruction ELSE "",
     SubmittedAt |-> IF so.enteredTime.layout /= "empty" /\ ParseTime(so.enteredTime).ok
                     THEN ParseTime(so.enteredTime).time ELSE ZeroTime,
     LimitPrice |-> Nil,
     FilledAt |-> Nil]

\* the first part of the split location instead of the last: parts[0]
FirstPart(location) ==
    LET Before(cuts) ==
            SubSeq(location, 1,
                   IF cuts = {} THEN Len(location)
                   ELSE (CHOOSE i \in cuts : \A j \in cuts : i <= j) - 1)
    IN  Before({i \in 1..Len(location) : location[i] = "/"})

\* PlaceOrder: parts := strings.Split(location, "/"); parts[len(parts)-1]
LastPart(location) ==
    LET After(cuts) ==
            SubSeq(location,
                   IF cuts = {} THEN 1
                   ELSE 1 + CHOOSE i \in cuts : \A j \in cuts : j <= i,
                   Len(location))
    IN  After({i \in 1..Len(location) : location[i] = "/"})

\* a status check that lets every status below 500 through
StatusBelow500(status) == status < 500

\* GetAccounts: if resp.StatusCode != http.StatusOK { return nil, ... }
StatusOK(status) == status = 200

\* Client.GetAccounts: the transport's error is returned as it is; then the
\* body is read, the status compared with 200 and the body parsed.
GetAccounts(tok, f, t, rin, bin) ==
    LET Read(mr, out) ==
            IF mr.err /= "" THEN out
            ELSE IF mr.resp.body = "unreadable"
            THEN [out EXCEPT !.err = "failed to read accounts response"]
            ELSE IF ~StatusOK(mr.resp.status)
            THEN [out EXCEPT !.err = "get accounts failed with status",
                             !.errStatus = mr.resp.status,
                             !.errBody = mr.resp.body]
            ELSE IF mr.resp.body = "malformed"
            THEN [out EXCEPT !.err = "failed to parse accounts response"]
            ELSE [out EXCEPT !.value = 
                     Ptr([i \in 1..Len(mr.resp.data) |-> Account(mr.resp.data[i])])]
        Call(mr) == Read(mr, mr @@ [errStatus |-> 0, errBody |-> "", value |-> Nil])
    IN  Call(makeRequest(tok, f, t, rin, bin))

\* Client.GetPositions
GetPositions(tok, f, t, rin, bin) ==
    LET Read(mr, out) ==
            IF mr.err /= "" THEN out
            ELSE IF mr.resp.body = "unreadable"
            THEN [out EXCEPT !.err = "failed to read positions response"]
            ELSE IF ~StatusOK(mr.resp.status)
            THEN [out EXCEPT !.err = "get positions failed with status",
                             !.errStatus = mr.resp.status,
                             !.errBody = mr.resp.body]
            ELSE IF mr.resp.body = "malformed"
            THEN [out EXCEPT !.err = "failed to parse positions response"]
            ELSE [out EXCEPT !.value = 
                     Ptr([i \in 1..Len(mr.resp.data) |-> Position(mr.resp.data[i])])]
        Call(mr) == Read(mr, mr @@ [errStatus |-> 0, errBody |-> "", value |-> Nil])
    IN  Call(makeRequest(tok, f, t, rin, bin))

\* a status check that takes every status for an accepted order
OrderAcceptedAlways(status) == TRUE

\* PlaceOrder: resp.StatusCode != http.StatusCreated && != http.StatusOK
OrderAccepted(status) == status = 201 \/ status = 200

\* Client.PlaceOrder: the order is sent as SchwabOrder(order); the Order
\* returned echoes the request, pending, with the id of the Location header
PlaceOrder(tok, f, t, rin, bin, order) ==
    LET Read(mr, out) ==
            IF mr.err /= "" THEN out
            ELSE IF mr.resp.body = "unreadable"
            THEN [out EXCEPT !.err = "failed to read order response"]
            ELSE IF ~OrderAccepted(mr.resp.status)
            THEN [out EXCEPT !.err = "place order failed with status",
                             !.errStatus = mr.resp.status,
                             !.errBody = mr.resp.body]
            ELSE [out EXCEPT !.value =
                     Ptr([ID |-> IF mr.resp.location /= <<>>
                                 THEN LastPart(mr.resp.location) ELSE <<>>,
                          Symbol |-> order.Symbol, Action |-> order.Action,
                          Type |-> order.Type, Quantity |-> order.Quantity,
                          LimitPrice |-> order.LimitPrice,
                          Status |-> OrderStatusPending,
                          FilledQty |-> 0, FilledPrice |-> 0,
                          SubmittedAt |-> [wall |-> mr.now, mono |-> TRUE],
                          FilledAt |-> Nil,
                          RawResponse |-> Ptr(mr.resp.body)])]
        Call(mr) ==
            Read(mr, mr @@ [errStatus |-> 0, errBody |-> "", value |-> Nil,
                            payload |-> IF mr.bizReqs > 0 THEN Ptr(SchwabOrder(order))
                                                         ELSE Nil])
    IN  Call(makeRequest(tok, f, t, rin, bin))

\* Client.GetOrderStatus: the body holds one vendor order (data[1])
GetOrderStatus(tok, f, t, rin, bin) ==
    LET Read(mr, out) ==
            IF mr.err /= "" THEN out
            ELSE IF mr.resp.body = "unreadable"
            THEN [out EXCEPT !.err = "failed to read order response"]
            ELSE IF ~StatusOK(mr.resp.status)
            THEN [out EXCEPT !.err = "get order failed with status",
                             !.errStatus = mr.resp.status,
                             !.errBody = mr.resp.body]
            ELSE IF mr.resp.body = "malformed"
            THEN [out EXCEPT !.err = "failed to parse order response"]
            ELSE [out EXCEPT !.value = Ptr(Order(mr.resp.data[1], Ptr(mr.resp.body)))]
        Call(mr) == Read(mr, mr @@ [errStatus |-> 0, errBody |-> "", value |-> Nil])
    IN  Call(makeRequest(tok, f, t, rin, bin))

\* CancelPendingOrder: resp.StatusCode != http.StatusOK && != http.StatusNoContent
CancelAccepted(status) == status = 200 \/ status = 204

\* Client.CancelPendingOrder: the body is read only for the error text, and
\* what could be read of it is used (the read error is dropped)
CancelPendingOrder(tok, f, t, rin, bin) ==
    LET Read(mr, out) ==
            IF mr.err /= "" THEN out
            ELSE IF ~CancelAccepted(mr.resp.status)
            THEN [out EXCEPT !.err = "cancel order failed with status",
                             !.errStatus = mr.resp.status,
                             !.errBody = IF mr.resp.body = "unreadable" THEN ""
                                         ELSE mr.resp.body]
            ELSE out
        Call(mr) == Read(mr, mr @@ [errStatus |-> 0, errBody |-> "", value |-> Nil])
    IN  Call(makeRequest(tok, f, t, rin, bin))

\* Client.GetRecentOrders
GetRecentOrders(tok, f, t, rin, bin) ==
    LET Recent(so) == Order(so, Nil)
        Read(mr, out) ==
            IF mr.err /= "" THEN out
            ELSE IF mr.resp.body = "unreadable"
            THEN [out EXCEPT !.err = "failed to read orders response"]
            ELSE IF ~StatusOK(mr.resp.status)
            THEN [out EXCEPT !.err = "get orders failed with status",
                             !.errStatus = mr.resp.status,
                             !.errBody = mr.resp.body]
            ELSE IF mr.resp.body = "malformed"
            THEN [out EXCEPT !.err = "failed to parse orders response"]
            ELSE [out EXCEPT !.value = 
                     Ptr([i \in 1..Len(mr.resp.data) |-> Recent(mr.resp.data[i])])]
        Call(mr) == Read(mr, mr @@ [errStatus |-> 0, errBody |-> "", value |-> Nil])
    IN  Call(makeRequest(tok, f, t, rin, bin))

\* Client.GetQuote: the decoded JSON object (data[1]) is returned as it is
GetQuote(tok, f, t, rin, bin) ==
    LET Read(mr, out) ==
            IF mr.err /= "" THEN out
            ELSE IF mr.resp.body = "unreadable"
            THEN [out EXCEPT !.err = "failed to read quote response"]
            ELSE IF ~StatusOK(mr.resp.status)
            THEN [out EXCEPT !.err = "get quote failed with status",
                             !.errStatus = mr.resp.status,
                             !.errBody = mr.resp.body]
            ELSE IF mr.resp.body = "malformed"
            THEN [out EXCEPT !.err = "failed to parse quote response"]
            ELSE [out EXCEPT !.value = Ptr(mr.resp.data[1])]
        Call(mr) == Read(mr, mr @@ [errStatus |-> 0, errBody |-> "", value |-> Nil])
    IN  Call(makeRequest(tok, f, t, rin, bin))

\* tokens a caller hands to SetAccessToken: the lifetime and the expiry are
\* two fields the caller fills in, with or without a refresh token
CallerTokens ==
    {MkToken("a1", r, ei, [wall |-> ea, mono |-> FALSE]) :
        r \in RefreshTokens, ei \in ExpiresIns, ea \in {0, 1800}}

\* the process starts: no credential in memory, no token file yet
Init ==
    /\ token = NoToken
    /\ file = Missing
    /\ now = 0
    /\ last = Idle
    /\ calls = NoCalls
    /\ flow = NoFlow

\* NewClient in a new process: the token file is what earlier runs left
CallNewClient ==
    /\ last = Idle
    /\ token' = NoToken
    /\ last' = [Idle EXCEPT !.op = "NewClient", !.at = now]
    /\ UNCHANGED <<file, now>>
    /\ UNCHANGED <<calls, flow>>

CallSetAccessToken ==
    /\ last = Idle
    /\ \E tok \in CallerTokens, w \in WriteOutcomes :
          \E set \in {SetAccessToken(tok, file, w)} :
              /\ token' = set.token
              /\ file' = set.file
              /\ last' = [Idle EXCEPT !.op = "SetAccessToken", !.at = now,
                                      !.saved = TRUE, !.writeFailed = (w /= "ok")]
    /\ UNCHANGED now
    /\ UNCHANGED <<calls, flow>>

CallSetAccessTokenFromFile ==
    /\ last = Idle
    /\ token' = SetAccessTokenFromFile(token, file)
    /\ last' = [Idle EXCEPT !.op = "SetAccessTokenFromFile", !.at = now,
                            !.loadFailed = (file = Missing \/ file = Malformed)]
    /\ UNCHANGED <<file, now>>
    /\ UNCHANGED <<calls, flow>>

CallIsAuthenticated ==
    /\ last = Idle
    /\ last' = [Idle EXCEPT !.op = "IsAuthenticated", !.at = now, !.checkAt = now,
                            !.authed = IsAuthenticated(token, now)]
    /\ UNCHANGED <<token, file, now>>
    /\ UNCHANGED <<calls, flow>>

\* the token decoded from the answer to a token request that was sent
Granted(sent, resp) ==
    IF sent > 0 /\ resp.outcome = "ok" THEN ParseTokenResponse(resp) ELSE NoToken

\* the outcome record of a session call with result r
SessionOutcome(name, r) ==
    [Idle EXCEPT !.op = name, !.at = now, !.err = r.err, !.errStatus = r.errStatus,
                 !.tokenReqs = r.tokenReqs, !.stampAt = r.stampAt,
                 !.saved = r.saved, !.writeFailed = r.writeFailed]

CallExchangeAuthCodeForAccessToken ==
    /\ last = Idle
    /\ \E rin \in RefreshInputs(now) :
          \E r \in {ExchangeAuthCodeForAccessToken(token, file, now,
                                                   rin.resp, rin.t2, rin.w)} :
              /\ token' = r.token
              /\ file' = r.file
              /\ now' = r.now
              /\ last' = [SessionOutcome("ExchangeAuthCodeForAccessToken", r) EXCEPT
                             !.granted = Granted(r.tokenReqs, rin.resp)]
    /\ UNCHANGED <<calls, flow>>

CallRefreshToken ==
    /\ last = Idle
    /\ \E rin \in RefreshInputs(now) :
          \E r \in {refreshToken(token, file, now, rin.resp, rin.t2, rin.w)} :
              /\ token' = r.token
              /\ file' = r.file
              /\ now' = r.now
              /\ last' = [SessionOutcome("refreshToken", r) EXCEPT
                             !.refreshed = TRUE, !.refreshErr = r.err,
                             !.granted = Granted(r.tokenReqs, rin.resp)]
    /\ UNCHANGED <<calls, flow>>

\* a business call; the inputs of a round trip the call does not make are
\* not enumerated
NoRefreshInput == [resp |-> CHOOSE x \in TokenResponses : x.outcome = "network_error",
                   t2 |-> 0, w |-> "ok"]
NoBusinessInput == [resp |-> NoResponse, t3 |-> 0]

CallGetAccounts ==
    /\ last = Idle
    /\ \E rin \in (IF NeedsRefresh(token, now) THEN RefreshInputs(now)
                                              ELSE {NoRefreshInput}) :
          \E probe \in {GetAccounts(token, file, now, rin, NoBusinessInput)} :
              \E bin \in (IF probe.bizReqs > 0 THEN BusinessInputs(probe.checkAt)
                                                ELSE {NoBusinessInput}) :
                 \E r \in {GetAccounts(token, file, now, rin, bin)} :
                     /\ token' = r.token
                     /\ file' = r.file
                     /\ now' = r.now
                     /\ last' = [op |-> "GetAccounts", err |-> r.err, cause |-> r.cause,
                                 errStatus |-> r.errStatus, respStatus |-> r.resp.status,
                                 respBody |-> r.resp.body,
                                 refreshed |-> r.refreshed, refreshErr |-> r.refreshErr,
                                 tokenReqs |-> r.tokenReqs, bizReqs |-> r.bizReqs,
                                 at |-> now, checkAt |-> r.checkAt, stampAt |-> r.stampAt,
                                 authed |-> r.authed, bearer |-> r.bearer,
                                 saved |-> r.saved, writeFailed |-> r.writeFailed,
                                 granted |-> Granted(r.tokenReqs, rin.resp),
                                 loadFailed |-> FALSE]
    /\ UNCHANGED <<calls, flow>>

\* the caller takes the outcome of the call
Return ==
    /\ last /= Idle
    /\ last' = Idle
    /\ UNCHANGED <<token, file, now>>
    /\ UNCHANGED <<calls, flow>>

\* time passes between calls
Tick ==
    /\ last = Idle
    /\ \E t \in Instants : t > now /\ now' = t
    /\ UNCHANGED <<token, file, last>>
    /\ UNCHANGED <<calls, flow>>

Next ==
    \/ CallExchangeAuthCodeForAccessToken
    \/ CallRefreshToken
    \/ CallGetAccounts
    \/ CallIsAuthenticated
    \/ CallSetAccessToken
    \/ CallSetAccessTokenFromFile
    \/ CallNewClient
    \/ Return
    \/ Tick

Spec == Init /\ [][Next]_vars

TypeOK ==
    /\ now \in Instants
    /\ last.op \in {"idle", "NewClient", "SetAccessToken", "SetAccessTokenFromFile",
                    "IsAuthenticated", "ExchangeAuthCodeForAccessToken",
                    "refreshToken", "GetAccounts"}
    /\ token = NoToken \/ token.expires_in \in ExpiresIns
    /\ file \in {Missing, Malformed} \/ file.kind = "json"

----------------------------------------------------------------------------
(* The business methods over the vendor's answers *)

\* statuses the vendor API answers with
AdapterStatuses == {200, 201, 204, 301, 400, 401, 404, 500}

\* the answers to one business request: a network failure, or a status and a
\* body; a 2xx answer with a JSON body carries one of the documents in datas
\* and one of the Location headers in locations
AdapterResponses(datas, locations) ==
    {NoResponse} \cup
    UNION {[outcome : {"response"}, status : {st}, body : {b},
            data : IF b = "json" /\ st < 300 THEN datas ELSE {<<>>},
            location : IF st < 300 THEN locations ELSE {<<>>}] :
              st \in AdapterStatuses, b \in Bodies}

\* lists of at most n elements of a set
ListsUpTo(set, n) == UNION {[1..k -> set] : k \in 0..n}

\* securitiesAccount records; liquidationValue is the vendor's own total
VendorAccounts ==
    [accountId : {"hash1"}, accountNumber : {"1234"}, type : {"MARGIN"},
     cashBalance : {0, 100, 250}, buyingPower : {500},
     longMarketValue : {0, 40}, liquidationValue : {0, 290}]

\* position records: flat, long, short and long-and-short positions, with
\* and without a cost basis
VendorPositions ==
    [symbol : {"VTI"}, longQuantity : {0, 5, 10}, shortQuantity : {0, 5},
     averagePrice : {0, 2}, marketValue : {-10, 0, 10, 30}]

\* order requests of a caller
OrderRequests ==
    [Symbol : {"VTI"}, Action : {"BUY", "SELL"},
     Type : {OrderTypeMarket, OrderTypeLimit}, Quantity : {10},
     LimitPrice : {Nil, Ptr(3)}]

\* Location headers: none, the order's URL, a bare id, a URL ending in "/"
Locations ==
    {<<>>, <<"/", "o", "/", "4", "2">>, <<"4", "2">>, <<"/", "o", "/">>}

\* every way of writing a word in upper- and lower-case letters
Casings(word) ==
    {[i \in 1..Len(word) |-> IF i \in up THEN UpperCase[word[i]] ELSE word[i]] :
        up \in SUBSET (1..Len(word))}

\* status texts of vendor orders: every casing of the four words the
\* conversion knows, and texts that are none of them
VendorStatuses ==
    Casings(<<"f", "i", "l", "l", "e", "d">>) \cup Casings(<<"c", "a", "n", "c", "e", "l", "e", "d">>)
    \cup Casings(<<"c", "a", "n", "c", "e", "l", "l", "e", "d">>) \cup Casings(<<"r", "e", "j", "e", "c", "t", "e", "d">>)
    \cup {<<>>, <<"W", "O", "R", "K", "I", "N", "G">>, <<"q", "u", "e", "u", "e", "d">>,
          <<"f", "i", "l", "l">>, <<"F", "I", "L", "L", "E", "D", "D">>, <<"F", "I", "L", "L", "E", "D", " ">>,
          <<"c", "a", "n", "c", "e", "l">>, <<"R", "e", "j", "e", "c", "t">>, <<"p", "e", "n", "d", "i", "n", "g">>,
          <<"f", "dotless_i", "l", "l", "e", "d">>,
          <<"F", "dotless_i", "L", "L", "E", "D">>}

\* enteredTime texts: none, an RFC 3339 text, a text in another layout
EnteredTimes ==
    {[layout |-> "empty", wall |-> -1], [layout |-> "RFC3339", wall |-> 1000],
     [layout |-> "other", wall |-> 1000]}

\* vendor orders: one order in every status text, and orders that differ in
\* the other fields
VendorOrders ==
    [orderId : {42}, status : VendorStatuses, quantity : {10},
     filledQuantity : {0}, price : {0}, orderType : {OrderTypeLimit},
     enteredTime : {[layout |-> "empty", wall |-> -1]},
     orderLegCollection : {<<>>}]
    \cup
    [orderId : {0, 42}, status : {<<"W", "O", "R", "K", "I", "N", "G">>, <<"F", "I", "L", "L", "E", "D">>},
     quantity : {10}, filledQuantity : {0, 10}, price : {0, 3},
     orderType : {OrderTypeMarket, OrderTypeLimit}, enteredTime : EnteredTimes,
     orderLegCollection : {<<>>, <<[instruction |-> "BUY", symbol |-> "VTI"]>>}]

\* the orders of a list of recent orders
RecentOrders ==
    {so \in VendorOrders :
        /\ so.status \in {<<"W", "O", "R", "K", "I", "N", "G">>, <<"F", "i", "l", "l", "e", "d">>, <<"C", "A", "N", "C", "E", "L", "E", "D">>}
        /\ so.orderId = 42 /\ so.filledQuantity = 0 /\ so.price = 0
        /\ so.orderType = OrderTypeLimit /\ so.enteredTime.layout = "empty"
        /\ so.orderLegCollection = <<>>}

\* quote documents
Quotes == {[VTI |-> [lastPrice |-> 250]], [VTI |-> [lastPrice |-> 0]]}

\* A client that holds no credential, or one issued at instant 0 for 1800 s
AdapterInit ==
    /\ now = 0
    /\ token \in {NoToken, MkToken("a1", "r1", 1800, [wall |-> 1800, mono |-> TRUE])}
    /\ file = IF token = NoToken THEN Missing ELSE Marshal(token)
    /\ last = Idle
    /\ calls = NoCalls
    /\ flow = NoFlow

\* what a business method did and returned
AdapterOutcome(name, request, resp, r, payload) ==
    [op |-> name, err |-> r.err, cause |-> r.cause, errStatus |-> r.errStatus,
     errBody |-> r.errBody, tokenReqs |-> r.tokenReqs, bizReqs |-> r.bizReqs,
     request |-> request, resp |-> resp, value |-> r.value, payload |-> payload]

InvokeGetAccounts ==
    /\ last = Idle
    /\ ~NeedsRefresh(token, now)
    /\ \E bin \in [resp : AdapterResponses(ListsUpTo(VendorAccounts, 2), {<<>>}),
                   t3 : Elapsed(now)] :
          \E r \in {GetAccounts(token, file, now, NoRefreshInput, bin)} :
              /\ token' = r.token
              /\ file' = r.file
              /\ now' = r.now
              /\ last' = AdapterOutcome("GetAccounts", Nil, bin.resp, r, Nil)
    /\ UNCHANGED <<calls, flow>>

InvokeGetPositions ==
    /\ last = Idle
    /\ ~NeedsRefresh(token, now)
    /\ \E bin \in [resp : AdapterResponses(ListsUpTo(VendorPositions, 1), {<<>>}),
                   t3 : Elapsed(now)] :
          \E r \in {GetPositions(token, file, now, NoRefreshInput, bin)} :
              /\ token' = r.token
              /\ file' = r.file
              /\ now' = r.now
              /\ last' = AdapterOutcome("GetPositions", Nil, bin.resp, r, Nil)
    /\ UNCHANGED <<calls, flow>>

InvokePlaceOrder ==
    /\ last = Idle
    /\ ~NeedsRefresh(token, now)
    /\ \E order \in OrderRequests :
       \E bin \in [resp : AdapterResponses({<<>>}, Locations), t3 : Elapsed(now)] :
          \E r \in {PlaceOrder(token, file, now, NoRefreshInput, bin, order)} :
              /\ token' = r.token
              /\ file' = r.file
              /\ now' = r.now
              /\ last' = AdapterOutcome("PlaceOrder", Ptr(order), bin.resp, r,
                                        r.payload)
    /\ UNCHANGED <<calls, flow>>

InvokeGetOrderStatus ==
    /\ last = Idle
    /\ ~NeedsRefresh(token, now)
    /\ \E bin \in [resp : AdapterResponses({<<so>> : so \in VendorOrders}, {<<>>}),
                   t3 : Elapsed(now)] :
          \E r \in {GetOrderStatus(token, file, now, NoRefreshInput, bin)} :
              /\ token' = r.token
              /\ file' = r.file
              /\ now' = r.now
              /\ last' = AdapterOutcome("GetOrderStatus", Nil, bin.resp, r, Nil)
    /\ UNCHANGED <<calls, flow>>

InvokeCancelPendingOrder ==
    /\ last = Idle
    /\ ~NeedsRefresh(token, now)
    /\ \E bin \in [resp : AdapterResponses({<<>>}, {<<>>}), t3 : Elapsed(now)] :
          \E r \in {CancelPendingOrder(token, file, now, NoRefreshInput, bin)} :
              /\ token' = r.token
              /\ file' = r.file
              /\ now' = r.now
              /\ last' = AdapterOutcome("CancelPendingOrder", Nil, bin.resp, r, Nil)
    /\ UNCHANGED <<calls, flow>>

InvokeGetRecentOrders ==
    /\ last = Idle
    /\ ~NeedsRefresh(token, now)
    /\ \E bin \in [resp : AdapterResponses(ListsUpTo(RecentOrders, 2), {<<>>}),
                   t3 : Elapsed(now)] :
          \E r \in {GetRecentOrders(token, file, now, NoRefreshInput, bin)} :
              /\ token' = r.token
              /\ file' = r.file
              /\ now' = r.now
              /\ last' = AdapterOutcome("GetRecentOrders", Nil, bin.resp, r, Nil)
    /\ UNCHANGED <<calls, flow>>

InvokeGetQuote ==
    /\ last = Idle
    /\ ~NeedsRefresh(token, now)
    /\ \E bin \in [resp : AdapterResponses({<<q>> : q \in Quotes}, {<<>>}),
                   t3 : Elapsed(now)] :
          \E r \in {GetQuote(token, file, now, NoRefreshInput, bin)} :
              /\ token' = r.token
              /\ file' = r.file
              /\ now' = r.now
              /\ last' = AdapterOutcome("GetQuote", Nil, bin.resp, r, Nil)
    /\ UNCHANGED <<calls, flow>>

AdapterNext ==
    \/ InvokeGetAccounts
    \/ InvokeGetPositions
    \/ InvokePlaceOrder
    \/ InvokeGetOrderStatus
    \/ InvokeCancelPendingOrder
    \/ InvokeGetRecentOrders
    \/ InvokeGetQuote
    \/ Return

SpecAdapter == AdapterInit /\ [][AdapterNext]_vars

----------------------------------------------------------------------------
(* Saving a credential and loading it into a fresh client *)

\* credentials a caller saves: every field takes two values or more; the
\* expiry is the zero time, or an instant with or without monotonic reading
RoundTripTokens ==
    {[MkToken(a, r, ei, [wall |-> ea, mono |-> m])
         EXCEPT !.token_type = tt, !.scope = sc] :
        a \in AccessTokens, r \in RefreshTokens, ei \in ExpiresIns,
        ea \in {0, 1800}, m \in BOOLEAN, tt \in {"Bearer", ""}, sc \in {"api", ""}}
    \cup {MkToken(a, "r1", 1800, ZeroTime) : a \in AccessTokens}

\* a client without credential, no token file
RoundTripInit ==
    /\ token = NoToken
    /\ file = Missing
    /\ now = 0
    /\ last = Idle
    /\ calls = NoCalls
    /\ flow = NoFlow

\* SetAccessToken(given): last keeps what was given and how the write ended
RoundTripSave ==
    /\ last = Idle
    /\ \E given \in RoundTripTokens, w \in WriteOutcomes :
          \E set \in {SetAccessToken(given, file, w)} :
              /\ token' = set.token
              /\ file' = set.file
              /\ last' = [op |-> "SetAccessToken", given |-> given,
                          writeFailed |-> (w /= "ok"), loadFailed |-> FALSE]
    /\ UNCHANGED now
    /\ UNCHANGED <<calls, flow>>

\* NewClient: a client of its own, without credential, on the same file
RoundTripNewClient ==
    /\ last /= Idle
    /\ last.op = "SetAccessToken"
    /\ token' = NoToken
    /\ last' = [last EXCEPT !.op = "NewClient"]
    /\ UNCHANGED <<file, now>>
    /\ UNCHANGED <<calls, flow>>

\* SetAccessTokenFromFile on the fresh client
RoundTripLoad ==
    /\ last /= Idle
    /\ last.op = "NewClient"
    /\ token' = SetAccessTokenFromFile(token, file)
    /\ last' = [last EXCEPT !.op = "SetAccessTokenFromFile",
                            !.loadFailed = (file = Missing \/ file = Malformed)]
    /\ UNCHANGED <<file, now>>
    /\ UNCHANGED <<calls, flow>>

RoundTripNext ==
    \/ RoundTripSave
    \/ RoundTripNewClient
    \/ RoundTripLoad
    \/ Return

SpecRoundTrip == RoundTripInit /\ [][RoundTripNext]_vars

----------------------------------------------------------------------------
(* cmd/oauth-flow: the interactive authorization *)

\* the code query parameter of a callback request: none, or a code
CallbackCodes == {"", "code1", "code2"}

Handlers == 1..MaxCallbacks

\* the command starts: what earlier runs left in the token file is nothing,
\* a credential that is still valid, or one that has expired
FlowInit ==
    /\ token = NoToken
    /\ file \in {Missing,
                 Marshal(MkToken("a1", "r1", 1800, [wall |-> 1800, mono |-> FALSE])),
                 Marshal(MkToken("a1", "r1", 1800, [wall |-> 0, mono |-> FALSE]))}
    /\ now = 0
    /\ last = Idle
    /\ calls = NoCalls
    /\ flow = [main |-> "load",            \* where main() is
               session |-> "not started",  \* where the go func() is
               server |-> "new",           \* the http.Server
               handler |-> [h \in Handlers |-> "not called"],
               code |-> [h \in Handlers |-> ""],
               authCode |-> "",            \* the code the session received
               printed |-> "",             \* the session's last message
               transits |-> 0,             \* values passed over authCodeChan
               exchanges |-> 0]            \* calls of ExchangeAuthCode...

\* main: NewClient(...).SetAccessTokenFromFile(); a client that is
\* authenticated ends the command, otherwise the session goroutine starts
FlowLoad ==
    /\ flow.main = "load"
    /\ token' = SetAccessTokenFromFile(NoToken, file)
    /\ flow' = IF IsAuthenticated(token', now)
               THEN [flow EXCEPT !.main = "exited", !.printed = "already authenticated"]
               ELSE [flow EXCEPT !.main = "listen", !.session = "open browser"]
    /\ UNCHANGED <<file, now, last, calls>>

\* main: server.ListenAndServeTLS either serves or fails at once (no
\* certificate, port taken), and then main returns and the process ends
FlowListen ==
    /\ flow.main = "listen"
    /\ \/ flow' = [flow EXCEPT !.main = "serving", !.server = "listening"]
       \/ flow' = [flow EXCEPT !.main = "exited"]
    /\ UNCHANGED <<token, file, now, last, calls>>

\* session: browser.OpenURL(authURL), whatever it returns
FlowOpenBrowser ==
    /\ flow.main /= "exited"
    /\ flow.session = "open browser"
    /\ flow' = [flow EXCEPT !.session = "receive"]
    /\ UNCHANGED <<token, file, now, last, calls>>

\* a callback request is served: a handler without code returns, one with a
\* code goes on to send it on authCodeChan
FlowCallback(h) ==
    /\ flow.main = "serving"
    /\ flow.server = "listening"
    /\ flow.handler[h] = "not called"
    /\ \E c \in CallbackCodes :
          flow' = [flow EXCEPT !.handler[h] = IF c = "" THEN "returned" ELSE "send",
                               !.code[h] = c]
    /\ UNCHANGED <<token, file, now, last, calls>>

\* a session whose failed exchange waits for another code
AfterExchangeRetry(err) == IF err /= "" THEN "receive" ELSE "check"

\* session: a failed exchange goes to server.Shutdown, a successful one to
\* the IsAuthenticated check
AfterExchange(err) == IF err /= "" THEN "shutdown" ELSE "check"

\* authCodeChan is unbuffered: handler h's send and the session's receive
\* happen together, when both are there
FlowHandOff(h) ==
    /\ flow.main /= "exited"
    /\ flow.handler[h] = "send"
    /\ flow.session = "receive"
    /\ flow' = [flow EXCEPT !.handler[h] = "returned",
                            !.session = "exchange",
                            !.authCode = flow.code[h],
                            !.transits = @ + 1]
    /\ UNCHANGED <<token, file, now, last, calls>>

\* session: schwabClient.ExchangeAuthCodeForAccessToken(ctx, authCode)
FlowExchange ==
    /\ flow.main /= "exited"
    /\ flow.session = "exchange"
    /\ \E rin \in RefreshInputs(now) :
          \E r \in {ExchangeAuthCodeForAccessToken(token, file, now,
                                                   rin.resp, rin.t2, rin.w)} :
              /\ token' = r.token
              /\ file' = r.file
              /\ now' = r.now
              /\ flow' = [flow EXCEPT
                     !.session = AfterExchange(r.err),
                     !.exchanges = @ + 1,
                     !.printed = IF r.err /= "" THEN "failed to get access token"
                                                ELSE @]
    /\ UNCHANGED <<last, calls>>

\* session: if !schwabClient.IsAuthenticated() ... ; both ways lead to
\* server.Shutdown
FlowCheck ==
    /\ flow.main /= "exited"
    /\ flow.session = "check"
    /\ flow' = [flow EXCEPT
           !.session = "shutdown",
           !.printed = IF IsAuthenticated(token, now) THEN "OAuth2.0 flow complete"
                                                      ELSE "failed to authenticate"]
    /\ UNCHANGED <<token, file, now, last, calls>>

\* session: server.Shutdown(ctx) closes the listener, which makes
\* ListenAndServeTLS return, and then waits for the handlers still running
FlowShutdown ==
    /\ flow.main /= "exited"
    /\ flow.session = "shutdown"
    /\ flow' = [flow EXCEPT !.session = "wait for handlers", !.server = "closed"]
    /\ UNCHANGED <<token, file, now, last, calls>>

\* session: Shutdown returns once no handler is running
FlowShutdownReturns ==
    /\ flow.main /= "exited"
    /\ flow.session = "wait for handlers"
    /\ \A h \in Handlers : flow.handler[h] /= "send"
    /\ flow' = [flow EXCEPT !.session = "returned"]
    /\ UNCHANGED <<token, file, now, last, calls>>

\* a main that returns only when server.Shutdown has returned
FlowServerClosedAfterShutdown ==
    /\ flow.main = "serving"
    /\ flow.server = "closed"
    /\ flow.session = "returned"
    /\ flow' = [flow EXCEPT !.main = "exited"]
    /\ UNCHANGED <<token, file, now, last, calls>>

\* main: ListenAndServeTLS has returned http.ErrServerClosed; main returns
\* and the process ends, whatever the goroutines are doing
FlowServerClosed ==
    /\ flow.main = "serving"
    /\ flow.server = "closed"
    /\ flow' = [flow EXCEPT !.main = "exited"]
    /\ UNCHANGED <<token, file, now, last, calls>>

FlowNext ==
    \/ FlowLoad
    \/ FlowListen
    \/ FlowOpenBrowser
    \/ \E h \in Handlers : FlowCallback(h)
    \/ \E h \in Handlers : FlowHandOff(h)
    \/ FlowExchange
    \/ FlowCheck
    \/ FlowShutdown
    \/ FlowShutdownReturns
    \/ FlowServerClosed

SpecFlow == FlowInit /\ [][FlowNext]_vars

----------------------------------------------------------------------------
(* Transport calls running concurrently on one client *)

\* two goroutines call the transport of the same client
CallIds == {1, 2}

\* the length of the JSON text of a token, as far as it depends on the token
JsonSize(raw) ==
    Len(raw.access_token) + Len(raw.refresh_token) + Len(raw.token_type)
    + Len(raw.scope) + Len(Decimal(raw.expires_in))

\* a write that leaves a file that already holds a credential as it is
OverlayKeep(cur, data) ==
    IF cur.kind = "json" THEN cur ELSE data

\* os.WriteFile, the write after the truncating open: the bytes go to the
\* start of the file.  If another writer has put a longer text there since
\* the open, its tail stays, and the file is no JSON document.
Overlay(cur, data) ==
    IF cur.kind = "json" /\ JsonSize(cur) > JsonSize(data) THEN Malformed ELSE data

\* a transport call that has not started
NotStarted ==
    [pc |-> "start", err |-> "", sentAt |-> -1, carried |-> "",
     newToken |-> NoToken, tokenReqs |-> 0, bizReqs |-> 0, bearer |-> ""]

\* the client holds a credential issued at 0 for 1800 s; the calls start at
\* the first instant of the safety window (no refresh yet) or inside it
ConcurrentInit ==
    /\ token = MkToken("a1", "r1", 1800, [wall |-> 1800, mono |-> TRUE])
    /\ file = Marshal(token)
    /\ now \in {1500, 1796}
    /\ last = Idle
    /\ flow = NoFlow
    /\ calls = [call |-> [i \in CallIds |-> NotStarted],
                assigned |-> <<>>,   \* the calls that set c.token, in order
                written |-> <<>>]    \* the calls that wrote the file, in order

\* makeRequest: if c.token != nil && time.Now().Add(5*time.Minute).After(...)
TransportCheckWindow(i) ==
    /\ calls.call[i].pc = "start"
    /\ calls' = [calls EXCEPT !.call[i].pc =
                     IF NeedsRefresh(token, now) THEN "guard" ELSE "check"]
    /\ UNCHANGED <<token, file, now, last, flow>>

\* refreshToken: if c.token == nil || c.token.RefreshToken == "" { return ... }
TransportRefreshGuard(i) ==
    /\ calls.call[i].pc = "guard"
    /\ calls' = IF NoRefreshToken(token)
                THEN [calls EXCEPT !.call[i].pc = "done",
                                   !.call[i].err = "failed to refresh token"]
                ELSE [calls EXCEPT !.call[i].pc = "grant"]
    /\ UNCHANGED <<token, file, now, last, flow>>

\* refreshToken: data.Set("refresh_token", c.token.RefreshToken), and the
\* request is sent
TransportSendGrant(i) ==
    /\ calls.call[i].pc = "grant"
    /\ calls' = [calls EXCEPT !.call[i].pc = "await",
                              !.call[i].carried = token.refresh_token,
                              !.call[i].sentAt = now,
                              !.call[i].tokenReqs = 1]
    /\ UNCHANGED <<token, file, now, last, flow>>

\* refreshToken: the answer of the token endpoint; a token is parsed and
\* stamped, every other answer is returned as an error
TransportGrantAnswer(i) ==
    /\ calls.call[i].pc = "await"
    /\ \E resp \in TokenResponses :
       \E t2 \in {u \in Instants : now <= u /\ u <= calls.call[i].sentAt + HttpTimeout} :
          /\ now' = t2
          /\ calls' = IF resp.outcome = "ok"
                      THEN [calls EXCEPT
                               !.call[i].pc = "assign",
                               !.call[i].newToken =
                                   StampExpiry(ParseTokenResponse(resp), t2)]
                      ELSE [calls EXCEPT !.call[i].pc = "done",
                                         !.call[i].err = "failed to refresh token"]
    /\ UNCHANGED <<token, file, last, flow>>

\* SetAccessToken: c.token = &token
TransportAssign(i) ==
    /\ calls.call[i].pc = "assign"
    /\ token' = calls.call[i].newToken
    /\ calls' = [calls EXCEPT !.call[i].pc = "open",
                              !.assigned = Append(@, i)]
    /\ UNCHANGED <<file, now, last, flow>>

\* SetAccessToken: os.WriteFile opens the file with O_TRUNC, or fails to
TransportOpenFile(i) ==
    /\ calls.call[i].pc = "open"
    /\ \/ /\ file' = Malformed
          /\ calls' = [calls EXCEPT !.call[i].pc = "write"]
       \/ /\ file' = file
          /\ calls' = [calls EXCEPT !.call[i].pc = "check"]
    /\ UNCHANGED <<token, now, last, flow>>

\* SetAccessToken: os.WriteFile writes the text, or fails to; its error is
\* not looked at
TransportWriteFile(i) ==
    /\ calls.call[i].pc = "write"
    /\ \/ /\ file' = Overlay(file, Marshal(calls.call[i].newToken))
          /\ calls' = [calls EXCEPT !.call[i].pc = "check",
                                    !.written = Append(@, i)]
       \/ /\ file' = file
          /\ calls' = [calls EXCEPT !.call[i].pc = "check"]
    /\ UNCHANGED <<token, now, last, flow>>

\* makeRequest: if !c.IsAuthenticated() { return ... }; then the business
\* request is sent with c.token.AccessToken as bearer
TransportSend(i) ==
    /\ calls.call[i].pc = "check"
    /\ calls' = IF NotAuthenticated(token, now)
                THEN [calls EXCEPT !.call[i].pc = "done",
                                   !.call[i].err = "not authenticated"]
                ELSE [calls EXCEPT !.call[i].pc = "done",
                                   !.call[i].bizReqs = 1,
                                   !.call[i].bearer = token.access_token]
    /\ UNCHANGED <<token, file, now, last, flow>>

ConcurrentNext ==
    \E i \in CallIds :
        \/ TransportCheckWindow(i)
        \/ TransportRefreshGuard(i)
        \/ TransportSendGrant(i)
        \/ TransportGrantAnswer(i)
        \/ TransportAssign(i)
        \/ TransportOpenFile(i)
        \/ TransportWriteFile(i)
        \/ TransportSend(i)

SpecConcurrent == ConcurrentInit /\ [][ConcurrentNext]_vars

----------------------------------------------------------------------------
(* Claims *)

\* C1 (as stated): a transport call attempts a refresh before the business
\* request if and only if a credential is held and now + 5 minutes >=
\* expires_at, the instant now + 5 minutes = expires_at included.
C1_RefreshIffWindowInclusive ==
    [][last'.op = "GetAccounts" =>
          (last'.refreshed <=>
              (token /= NoToken /\ now + SafetyWindow >= token.expires_at.wall))]_vars

\* C1 (amended): a transport call attempts a refresh before the business
\* request if and only if a credential is held and now + 5 minutes is
\* strictly after expires_at; at now + 5 minutes = expires_at it does not.
C1_RefreshIffWindowStrict ==
    [][last'.op = "GetAccounts" =>
          (last'.refreshed <=>
              (token /= NoToken /\ now + SafetyWindow > token.expires_at.wall))]_vars

\* a transport call made exactly 5 minutes before expiry that did not refresh
C1_Witness ==
    /\ last.op = "GetAccounts"
    /\ token /= NoToken
    /\ last.at + SafetyWindow = token.expires_at.wall
    /\ ~last.refreshed
    /\ last.bizReqs = 1

\* the scenario's two calls (credential issued at T with expires_in = 1800):
\* the call at T+1796 refreshes, the call at T+1000 does not
C1_Scenario ==
    [][(/\ last'.op = "GetAccounts"
        /\ token /= NoToken
        /\ token.expires_in = 1800
        /\ token.expires_at.wall = 1800) =>
          /\ now = 1796 => last'.refreshed
          /\ now = 1000 => ~last'.refreshed]_vars

\* C2: whenever the refresh a transport call triggers fails, the call
\* returns an error that wraps the refresh error and sends no business
\* request, also when the access token held has not expired.
C2_RefreshFailureStopsCall ==
    (last.op = "GetAccounts" /\ last.refreshed /\ last.refreshErr /= "") =>
        /\ last.err = "failed to refresh token"
        /\ last.cause = last.refreshErr
        /\ last.bizReqs = 0

\* a transport call whose refresh failed at the vendor while the access
\* token held is still valid
C2_Witness ==
    /\ last.op = "GetAccounts"
    /\ last.refreshErr = "refresh token request failed with status"
    /\ last.tokenReqs = 1
    /\ last.bizReqs = 0
    /\ IsAuthenticated(token, now)

\* C3: a business request is sent only if IsAuthenticated() held when the
\* transport checked it; with no credential the call fails with the
\* not-authenticated error and sends no request of either kind.
C3_BusinessOnlyWhenAuthenticated ==
    [][last'.op = "GetAccounts" =>
          /\ last'.bizReqs = 1 =>
                (token' /= NoToken /\ last'.checkAt < token'.expires_at.wall)
          /\ token = NoToken =>
                /\ last'.err = "not authenticated"
                /\ last'.tokenReqs = 0
                /\ last'.bizReqs = 0]_vars

\* a transport call made with no credential, refused before any request
C3_Witness ==
    /\ last.op = "GetAccounts"
    /\ token = NoToken
    /\ last.err = "not authenticated"
    /\ last.tokenReqs = 0
    /\ last.bizReqs = 0

\* C4: IsAuthenticated() is true if and only if a credential is held and
\* now < expires_at; it is false at now = expires_at.
C4_IsAuthenticatedIffBeforeExpiry ==
    last.op = "IsAuthenticated" =>
        (last.authed <=>
            (token /= NoToken /\ last.checkAt < token.expires_at.wall))

\* IsAuthenticated() called exactly at expires_at
C4_Witness ==
    /\ last.op = "IsAuthenticated"
    /\ token /= NoToken
    /\ last.checkAt = token.expires_at.wall
    /\ ~last.authed

\* C5 (as stated): every failed refresh moves the session to
\* Unauthenticated: right after a failed refresh IsAuthenticated() is false.
C5_FailedRefreshUnauthenticates ==
    (last.refreshed /\ last.refreshErr /= "") => ~IsAuthenticated(token, now)

\* C5 (amended): a failed refresh leaves the credential as it was, so right
\* after it IsAuthenticated() is what the old credential gives at that
\* instant: false only if none is held or it has expired.  A successful
\* refresh leaves a credential that is authenticated at the instant it is
\* stamped exactly when its lifetime is positive.
C5_FailedRefreshKeepsCredential ==
    [][last'.refreshed =>
          /\ last'.refreshErr /= "" =>
                /\ token' = token
                /\ IsAuthenticated(token', now') <=>
                      (token /= NoToken /\ now' < token.expires_at.wall)
          /\ last'.refreshErr = "" =>
                (IsAuthenticated(token', last'.stampAt) <=> token'.expires_in > 0)]_vars

\* a refresh rejected by the vendor, after which the credential held is
\* still authenticated
C5_Witness ==
    /\ last.op = "refreshToken"
    /\ last.refreshErr = "refresh token request failed with status"
    /\ IsAuthenticated(token, now)

C7_ExpiryAlwaysDerived ==
    token /= NoToken =>
        \E t \in Instants :
            t <= now /\ token.expires_at.wall = t + token.expires_in

\* C7 (amended): a credential stored by a successful code exchange or
\* refresh has expires_at = (the instant the response was stamped) +
\* expires_in.
C7_StampedExpiryDerived ==
    last.stampAt >= 0 =>
        /\ token /= NoToken
        /\ token.expires_at.wall = last.stampAt + token.expires_in

\* a transport call at T+1796 that refreshed into a credential of lifetime
\* 1800 after a round trip of 4 seconds
C7_Witness ==
    /\ last.op = "GetAccounts"
    /\ last.at = 1796
    /\ last.stampAt = 1800
    /\ token /= NoToken
    /\ token.expires_in = 1800
    /\ token.expires_at.wall = 3600

\* C8: after every call that changes the credential in memory (code
\* exchange, refresh, SetAccessToken) the token file holds that credential,
\* also when the write to the file can fail.
C8_FileMirrorsMemory ==
    last.saved => (token /= NoToken /\ file = Marshal(token))

\* C9: every failure of the credential store is returned as an error: a
\* failed save makes the code exchange or refresh report failure, and a
\* failed load (missing or malformed file) is reported.
C9_StoreFailuresReported ==
    /\ (last.op \in {"ExchangeAuthCodeForAccessToken", "refreshToken"}
            /\ last.writeFailed) => last.err /= ""
    /\ (last.op = "SetAccessTokenFromFile" /\ last.loadFailed) => last.err /= ""

\* C10 (as stated): a vendor response with status 401 to a business call
\* (its body read) gives the vendor-API error carrying 401, and the
\* not-authenticated error is returned only by a call that sent no request
\* at all, neither to the token endpoint nor to the vendor API.
C10_NotAuthenticatedMeansNoRequest ==
    /\ (last.op = "GetAccounts" /\ last.respStatus = 401
            /\ last.respBody /= "unreadable") =>
          (last.err = "get accounts failed with status" /\ last.errStatus = 401)
    /\ last.err = "not authenticated" =>
          (last.tokenReqs = 0 /\ last.bizReqs = 0)

\* C10 (amended): a vendor response with status 401 to a business call (its
\* body read) gives the vendor-API error carrying 401, and the
\* not-authenticated error is returned only by a call that sent no business
\* request; if such a call has sent a token request, its refresh succeeded
\* and the refreshed credential is already expired at the check.
C10_NotAuthenticatedMeansNoBusinessRequest ==
    /\ (last.op = "GetAccounts" /\ last.respStatus = 401
            /\ last.respBody /= "unreadable") =>
          (last.err = "get accounts failed with status" /\ last.errStatus = 401)
    /\ last.err = "not authenticated" =>
          /\ last.bizReqs = 0
          /\ ~last.authed
          /\ last.tokenReqs > 0 =>
                /\ last.refreshed
                /\ last.refreshErr = ""
                /\ token /= NoToken
                /\ last.checkAt >= token.expires_at.wall

\* a transport call that refreshed at the token endpoint and then failed
\* with the not-authenticated error
C10_Witness ==
    /\ last.op = "GetAccounts"
    /\ last.err = "not authenticated"
    /\ last.tokenReqs = 1
    /\ last.bizReqs = 0

\* a business call answered with status 401
C10_Witness401 ==
    /\ last.op = "GetAccounts"
    /\ last.respStatus = 401
    /\ last.err = "get accounts failed with status"
    /\ last.errStatus = 401

\* C11: each transport call sends at most one request to the token endpoint
\* and at most one business request, the token request first: the business
\* request goes out only after the refresh has returned without error, a
\* failed business call (network failure or 5xx status) has been sent once,
\* and a call whose refresh failed has sent one token request at most and no
\* business request.
C11_AtMostOneRequestEach ==
    last.op = "GetAccounts" =>
        /\ last.tokenReqs <= 1
        /\ last.bizReqs <= 1
        /\ (last.tokenReqs = 1 /\ last.bizReqs = 1) =>
              (last.refreshed /\ last.refreshErr = "" /\ last.at <= last.checkAt)
        /\ (last.cause = "network_error" \/ last.respStatus >= 500) =>
              last.bizReqs = 1
        /\ (last.refreshed /\ last.refreshErr /= "") =>
              (last.tokenReqs <= 1 /\ last.bizReqs = 0)

\* a transport call that sent a token request, then a business request that
\* the vendor answered with a 5xx status
C11_Witness ==
    /\ last.op = "GetAccounts"
    /\ last.tokenReqs = 1
    /\ last.bizReqs = 1
    /\ last.respStatus >= 500

\* a transport call whose refresh was refused by the token endpoint
C11_WitnessRefreshFailed ==
    /\ last.op = "GetAccounts"
    /\ last.refreshErr /= ""
    /\ last.tokenReqs = 1
    /\ last.bizReqs = 0

\* C12: for each of the seven business methods, a vendor response whose
\* status is not 2xx gives an error and no value, and the error carries the
\* status and the body (when the body could be read); CancelPendingOrder,
\* given a response, succeeds exactly on status 200 or 204.
C12_NonSuccessStatusIsError ==
    (/\ last.op \in {"GetAccounts", "GetPositions", "PlaceOrder", "GetOrderStatus",
                     "CancelPendingOrder", "GetRecentOrders", "GetQuote"}
     /\ last.bizReqs = 1
     /\ last.resp.outcome = "response") =>
        /\ (last.resp.status < 200 \/ last.resp.status >= 300) =>
              /\ last.err /= ""
              /\ last.value = Nil
              /\ last.resp.body /= "unreadable" =>
                    /\ last.errStatus = last.resp.status
                    /\ last.errBody = last.resp.body
        /\ last.op = "CancelPendingOrder" =>
              (last.err = "" <=> last.resp.status \in {200, 204})

\* an order placed and answered with status 400 and a JSON body
C12_Witness ==
    /\ last.op = "PlaceOrder"
    /\ last.resp.status = 400
    /\ last.resp.body = "json"
    /\ last.err = "place order failed with status"
    /\ last.errStatus = 400

\* a cancel answered with status 204, and one answered with 201
C12_WitnessCancel ==
    /\ last.op = "CancelPendingOrder"
    /\ last.resp.outcome = "response"
    /\ \/ last.resp.status = 204 /\ last.err = ""
       \/ last.resp.status = 201 /\ last.err /= ""

\* C13: the order PlaceOrder sends to the vendor has a price field if and
\* only if the order type is limit: every limit order, one without a
\* LimitPrice included, carries a price, and every market order, one with a
\* LimitPrice included, carries none.
C13_PriceIffLimit ==
    (last.op = "PlaceOrder" /\ last.payload /= Nil) =>
        ("price" \in DOMAIN last.payload.v
            <=> last.request.v.Type = OrderTypeLimit)

\* the part of C13 the code keeps: a market order never carries a price, and
\* a limit order that has a LimitPrice carries that price
C13_PriceOnlyOnPricedLimit ==
    (last.op = "PlaceOrder" /\ last.payload /= Nil) =>
        /\ last.request.v.Type = OrderTypeMarket =>
              "price" \notin DOMAIN last.payload.v
        /\ (last.request.v.Type = OrderTypeLimit
                /\ last.request.v.LimitPrice /= Nil) =>
              /\ "price" \in DOMAIN last.payload.v
              /\ last.payload.v.price = last.request.v.LimitPrice.v

\* a limit order without a LimitPrice, sent to the vendor without a price
C13_LimitOrderSentWithoutPrice ==
    /\ last.op = "PlaceOrder"
    /\ last.payload /= Nil
    /\ last.request.v.Type = OrderTypeLimit
    /\ last.request.v.LimitPrice = Nil
    /\ "price" \notin DOMAIN last.payload.v
    /\ last.err = ""

\* C14: for every vendor position record, GetPositions divides by zero
\* nowhere: both derived fields are finite numbers, a net quantity of 0 gives
\* current price 0 and unrealized P/L percent 0, and an average price of 0
\* gives unrealized P/L percent 0.
C14_NoDivisionByZero ==
    (last.op = "GetPositions" /\ last.value /= Nil) =>
        \A i \in DOMAIN last.value.v :
            /\ last.value.v[i].CurrentPrice.kind = "finite"
            /\ last.value.v[i].UnrealizedPLPct.kind = "finite"
            /\ last.value.v[i].Quantity = 0 =>
                  /\ last.value.v[i].CurrentPrice = Float(0)
                  /\ last.value.v[i].UnrealizedPLPct = Float(0)
            /\ last.value.v[i].AveragePrice = 0 =>
                  last.value.v[i].UnrealizedPLPct = Float(0)

\* a position of net quantity 0 and average price 2 whose unrealized P/L
\* percent is the result of a division by zero
C14_DivisionByZeroReached ==
    /\ last.op = "GetPositions"
    /\ last.value /= Nil
    /\ \E i \in DOMAIN last.value.v :
          /\ last.value.v[i].Quantity = 0
          /\ last.value.v[i].AveragePrice = 2
          /\ last.value.v[i].UnrealizedPLPct.kind \in {"NaN", "Inf"}

\* C15: every position GetPositions produces has quantity = long quantity -
\* short quantity of its vendor record; a quantity of 0 gives current price
\* 0, and an average price of 0 gives unrealized P/L percent 0.
C15_PositionInvariants ==
    (last.op = "GetPositions" /\ last.value /= Nil) =>
        /\ Len(last.value.v) = Len(last.resp.data)
        /\ \A i \in DOMAIN last.value.v :
              /\ last.value.v[i].Quantity =
                     last.resp.data[i].longQuantity - last.resp.data[i].shortQuantity
              /\ last.value.v[i].Quantity = 0 =>
                    last.value.v[i].CurrentPrice = Float(0)
              /\ last.value.v[i].AveragePrice = 0 =>
                    last.value.v[i].UnrealizedPLPct = Float(0)

\* a flat position (long 5, short 5) produced with current price 0
C15_Witness ==
    /\ last.op = "GetPositions"
    /\ last.value /= Nil
    /\ \E i \in DOMAIN last.value.v :
          /\ last.resp.data[i].longQuantity = 5
          /\ last.resp.data[i].shortQuantity = 5
          /\ last.resp.data[i].marketValue = 10
          /\ last.value.v[i].Quantity = 0
          /\ last.value.v[i].CurrentPrice = Float(0)

\* a position without cost basis produced with unrealized P/L percent 0
C15_WitnessNoCostBasis ==
    /\ last.op = "GetPositions"
    /\ last.value /= Nil
    /\ \E i \in DOMAIN last.value.v :
          /\ last.value.v[i].AveragePrice = 0
          /\ last.value.v[i].Quantity = 10
          /\ last.value.v[i].UnrealizedPL = 30
          /\ last.value.v[i].UnrealizedPLPct = Float(0)

\* C16: every Account GetAccounts produces has total_value = cash_balance +
\* market_value, these two being the cash balance and the (long) market
\* value of its own vendor record, whatever total the vendor supplies.
C16_TotalIsCashPlusMarketValue ==
    (last.op = "GetAccounts" /\ last.value /= Nil) =>
        /\ Len(last.value.v) = Len(last.resp.data)
        /\ \A i \in DOMAIN last.value.v :
              /\ last.value.v[i].TotalValue =
                     last.value.v[i].CashBalance + last.value.v[i].MarketValue
              /\ last.value.v[i].CashBalance = last.resp.data[i].cashBalance
              /\ last.value.v[i].MarketValue = last.resp.data[i].longMarketValue

\* two accounts in one answer; the vendor's total of the first (0) differs
\* from its cash balance plus market value (140)
C16_Witness ==
    /\ last.op = "GetAccounts"
    /\ last.value /= Nil
    /\ Len(last.value.v) = 2
    /\ last.resp.data[1].liquidationValue = 0
    /\ last.value.v[1].TotalValue = 140
    /\ last.value.v[2].TotalValue = 250

\* C17: convertOrderStatus is total and case-insensitive: every casing of
\* "filled" gives filled, every casing of "canceled" or "cancelled" gives
\* cancelled, every casing of "rejected" gives rejected, every other string,
\* the empty one included, gives pending, and the result is always one of the
\* four statuses.
C17_EveryOtherStringPending ==
    (last.op = "GetOrderStatus" /\ last.value /= Nil) =>
        /\ last.value.v.Status \in {OrderStatusPending, OrderStatusFilled,
                                    OrderStatusCancelled, OrderStatusRejected}
        /\ last.resp.data[1].status \in Casings(<<"f", "i", "l", "l", "e", "d">>) =>
              last.value.v.Status = OrderStatusFilled
        /\ last.resp.data[1].status \in
              Casings(<<"c", "a", "n", "c", "e", "l", "e", "d">>)
              \cup Casings(<<"c", "a", "n", "c", "e", "l", "l", "e", "d">>) =>
              last.value.v.Status = OrderStatusCancelled
        /\ last.resp.data[1].status \in
              Casings(<<"r", "e", "j", "e", "c", "t", "e", "d">>) =>
              last.value.v.Status = OrderStatusRejected
        /\ (last.resp.data[1].status \notin
              Casings(<<"f", "i", "l", "l", "e", "d">>)
              \cup Casings(<<"c", "a", "n", "c", "e", "l", "e", "d">>)
              \cup Casings(<<"c", "a", "n", "c", "e", "l", "l", "e", "d">>)
              \cup Casings(<<"r", "e", "j", "e", "c", "t", "e", "d">>)) =>
              last.value.v.Status = OrderStatusPending

\* C17 (amended): as C17, with "every other string" narrowed to every other
\* string of ASCII characters: a string with a non-ASCII letter whose upper
\* case is an ASCII letter (dotless i, long s) is converted by its upper case.
C17_EveryOtherAsciiStringPending ==
    (last.op = "GetOrderStatus" /\ last.value /= Nil) =>
        /\ last.value.v.Status \in {OrderStatusPending, OrderStatusFilled,
                                    OrderStatusCancelled, OrderStatusRejected}
        /\ last.resp.data[1].status \in Casings(<<"f", "i", "l", "l", "e", "d">>) =>
              last.value.v.Status = OrderStatusFilled
        /\ last.resp.data[1].status \in
              Casings(<<"c", "a", "n", "c", "e", "l", "e", "d">>)
              \cup Casings(<<"c", "a", "n", "c", "e", "l", "l", "e", "d">>) =>
              last.value.v.Status = OrderStatusCancelled
        /\ last.resp.data[1].status \in
              Casings(<<"r", "e", "j", "e", "c", "t", "e", "d">>) =>
              last.value.v.Status = OrderStatusRejected
        /\ ((\A i \in DOMAIN last.resp.data[1].status :
                last.resp.data[1].status[i] \notin {"dotless_i", "long_s"})
            /\ last.resp.data[1].status \notin
              Casings(<<"f", "i", "l", "l", "e", "d">>)
              \cup Casings(<<"c", "a", "n", "c", "e", "l", "e", "d">>)
              \cup Casings(<<"c", "a", "n", "c", "e", "l", "l", "e", "d">>)
              \cup Casings(<<"r", "e", "j", "e", "c", "t", "e", "d">>)) =>
              last.value.v.Status = OrderStatusPending

\* an order whose status text "cAnCeLeD" became cancelled
C17_Witness ==
    /\ last.op = "GetOrderStatus"
    /\ last.value /= Nil
    /\ last.resp.data[1].status = <<"c", "A", "n", "C", "e", "L", "e", "D">>
    /\ last.value.v.Status = OrderStatusCancelled

\* orders whose empty status text, and whose text "FILLED ", became pending
C17_WitnessPending ==
    /\ last.op = "GetOrderStatus"
    /\ last.value /= Nil
    /\ last.resp.data[1].status \in {<<>>, <<"F", "I", "L", "L", "E", "D", " ">>}
    /\ last.value.v.Status = OrderStatusPending

\* an order whose status text is "filled" written with a dotless i, which is
\* no casing of "filled", became filled
C17_WitnessDotlessI ==
    /\ last.op = "GetOrderStatus"
    /\ last.value /= Nil
    /\ last.resp.data[1].status = <<"f", "dotless_i", "l", "l", "e", "d">>
    /\ last.value.v.Status = OrderStatusFilled

C19_OneCodeOneExchange ==
    flow.main /= "not started" =>
        /\ flow.transits <= 1
        /\ flow.exchanges <= flow.transits
        /\ flow.session \in {"check", "shutdown", "wait for handlers", "returned"} =>
              /\ flow.transits = 1
              /\ flow.exchanges = 1
              /\ flow.authCode \in {flow.code[h] : h \in Handlers} \ {""}
        /\ flow.session \in {"not started", "open browser", "receive"} =>
              flow.transits = 0

\* three callbacks with a code have arrived; one code was handed off and
\* exchanged, the two other handlers are still at their send
C19_Witness ==
    /\ flow.main /= "not started"
    /\ \A h \in Handlers : flow.code[h] /= ""
    /\ Cardinality({h \in Handlers : flow.handler[h] = "send"}) = MaxCallbacks - 1
    /\ flow.transits = 1
    /\ flow.exchanges = 1

C20_WitnessCrossed ==
    /\ calls /= NoCalls
    /\ \A i \in CallIds : calls.call[i].pc = "done"
    /\ Len(calls.assigned) = Cardinality(CallIds)
    /\ Len(calls.written) = Cardinality(CallIds)
    /\ calls.assigned[2] /= calls.written[2]
    /\ file /= Malformed
    /\ file /= Marshal(token)

\* both responses written without error, the file left unreadable
C20_WitnessGarbled ==
    /\ calls /= NoCalls
    /\ \A i \in CallIds : calls.call[i].pc = "done"
    /\ Len(calls.written) = Cardinality(CallIds)
    /\ file = Malformed

-----------------------------------------------------------------------------
(* One order watched over several calls, specification SpecLifecycle: the
   order is placed and its status is then read with GetOrderStatus and
   GetRecentOrders.  The client keeps nothing about an order between calls;
   calls holds what the caller has seen of the order so far. *)

\* the number of times the caller sees the order's status, the placing included
MaxObservations == 3

\* the status texts the vendor reports for the watched order
LifecycleStatuses ==
    {<<"W", "O", "R", "K", "I", "N", "G">>, <<"F", "I", "L", "L", "E", "D">>,
     <<"c", "a", "n", "c", "e", "l", "e", "d">>, <<"R", "e", "j", "e", "c", "t", "e", "d">>}

\* the watched order as the vendor reports it, and another order of the account
LifecycleOrders ==
    [orderId : {42}, status : LifecycleStatuses, quantity : {10},
     filledQuantity : {0}, price : {0}, orderType : {OrderTypeLimit},
     enteredTime : {[layout |-> "empty", wall |-> -1]},
     orderLegCollection : {<<>>}]
OtherOrder ==
    [orderId |-> 7, status |-> <<"F", "I", "L", "L", "E", "D">>, quantity |-> 1,
     filledQuantity |-> 1, price |-> 0, orderType |-> OrderTypeMarket,
     enteredTime |-> [layout |-> "empty", wall |-> -1],
     orderLegCollection |-> <<>>]

\* the caller has placed no order yet
NotPlaced == [id |-> Nil, seen |-> <<>>]

LifecycleInit ==
    /\ now = 0
    /\ token = MkToken("a1", "r1", 1800, [wall |-> 1800, mono |-> TRUE])
    /\ file = Marshal(token)
    /\ last = Idle
    /\ calls = NotPlaced
    /\ flow = NoFlow

\* the caller notes the status an Order value carries, and the status text of
\* the vendor's answer it was made of ("" for PlaceOrder, which reads none)
Seen(method, order, text) ==
    [by |-> method, status |-> order.Status, vendor |-> text]

LifecyclePlaceOrder ==
    /\ last = Idle
    /\ calls = NotPlaced
    /\ ~NeedsRefresh(token, now)
    /\ \E order \in {o \in OrderRequests : o.Action = "BUY" /\ o.Type = OrderTypeMarket} :
       \E bin \in [resp : AdapterResponses({<<>>}, {<<"/", "o", "/", "4", "2">>}),
                   t3 : Elapsed(now)] :
          \E r \in {PlaceOrder(token, file, now, NoRefreshInput, bin, order)} :
              /\ token' = r.token
              /\ file' = r.file
              /\ now' = r.now
              /\ last' = AdapterOutcome("PlaceOrder", Ptr(order), bin.resp, r,
                                        r.payload)
              /\ calls' = IF r.err = ""
                          THEN [id |-> Ptr(r.value.v.ID),
                                seen |-> <<Seen("PlaceOrder", r.value.v, <<>>)>>]
                          ELSE calls
    /\ UNCHANGED flow

LifecycleGetOrderStatus ==
    /\ last = Idle
    /\ calls /= NotPlaced
    /\ Len(calls.seen) < MaxObservations
    /\ ~NeedsRefresh(token, now)
    /\ \E bin \in [resp : AdapterResponses({<<so>> : so \in LifecycleOrders}, {<<>>}),
                   t3 : Elapsed(now)] :
          \E r \in {GetOrderStatus(token, file, now, NoRefreshInput, bin)} :
              /\ token' = r.token
              /\ file' = r.file
              /\ now' = r.now
              /\ last' = AdapterOutcome("GetOrderStatus", Nil, bin.resp, r, Nil)
              /\ calls' = IF r.err = ""
                          THEN [calls EXCEPT !.seen =
                                   Append(@, Seen("GetOrderStatus", r.value.v,
                                                  bin.resp.data[1].status))]
                          ELSE calls
    /\ UNCHANGED flow

\* the list of recent orders holds the watched order, alone or after another
LifecycleGetRecentOrders ==
    /\ last = Idle
    /\ calls /= NotPlaced
    /\ Len(calls.seen) < MaxObservations
    /\ ~NeedsRefresh(token, now)
    /\ \E bin \in [resp : AdapterResponses(
                              {<<so>> : so \in LifecycleOrders}
                              \cup {<<OtherOrder, so>> : so \in LifecycleOrders},
                              {<<>>}),
                   t3 : Elapsed(now)] :
          \E r \in {GetRecentOrders(token, file, now, NoRefreshInput, bin)} :
              /\ token' = r.token
              /\ file' = r.file
              /\ now' = r.now
              /\ last' = AdapterOutcome("GetRecentOrders", Nil, bin.resp, r, Nil)
              /\ calls' =
                   IF r.err = ""
                   THEN LET At == CHOOSE i \in 1..Len(r.value.v) :
                                      r.value.v[i].ID = calls.id.v
                        IN  [calls EXCEPT !.seen =
                                Append(@, Seen("GetRecentOrders", r.value.v[At],
                                               bin.resp.data[At].status))]
                   ELSE calls
    /\ UNCHANGED flow

LifecycleNext ==
    \/ LifecyclePlaceOrder
    \/ LifecycleGetOrderStatus
    \/ LifecycleGetRecentOrders
    \/ Return

SpecLifecycle == LifecycleInit /\ [][LifecycleNext]_vars

Terminal == {OrderStatusFilled, OrderStatusCancelled, OrderStatusRejected}

\* C21 (as stated): once the caller has seen the order in a terminal status,
\* nothing it sees later of the order reports another status
C21_TerminalStatusStays ==
    \A j \in 1..Len(calls.seen) : \A k \in 1..Len(calls.seen) :
            (j < k /\ calls.seen[j].status \in Terminal)
                => calls.seen[k].status = calls.seen[j].status

\* C21: the order is pending when placed; each later status the caller sees
\* is the conversion of the status text of that one answer of the vendor, so
\* a terminal status stays as long as the vendor keeps reporting its text
C21_StatusFollowsVendor ==
    \A k \in 1..Len(calls.seen) :
            /\ (k = 1) = (calls.seen[k].by = "PlaceOrder")
            /\ k = 1 => calls.seen[k].status = OrderStatusPending
            /\ k > 1 =>
                 /\ calls.seen[k].status \in Terminal
                      <=> ToUpper(calls.seen[k].vendor)
                            \in {<<"F", "I", "L", "L", "E", "D">>, <<"C", "A", "N", "C", "E", "L", "E", "D">>,
                                 <<"C", "A", "N", "C", "E", "L", "L", "E", "D">>,
                                 <<"R", "E", "J", "E", "C", "T", "E", "D">>}
                 /\ \A j \in 2..k :
                      calls.seen[j].vendor = calls.seen[k].vendor
                          => calls.seen[j].status = calls.seen[k].status

\* the order was seen filled, and the vendor's same text was seen filled again
C21_Witness ==
    /\ Len(calls.seen) = 3
    /\ calls.seen[2].status = OrderStatusFilled
    /\ calls.seen[3].status = OrderStatusFilled
    /\ calls.seen[2].by /= calls.seen[3].by

\* the order was seen filled and then seen pending
C21_WitnessFilledThenPending ==
    /\ Len(calls.seen) = 3
    /\ calls.seen[2].status = OrderStatusFilled
    /\ calls.seen[3].status = OrderStatusPending

-----------------------------------------------------------------------------
(* C22, under SpecAdapter *)

\* C22: a PlaceOrder that returns no error returns an order whose id is the
\* part of the Location header after its last "/" (the whole header when it
\* has none), the empty string when the answer has no Location header, whose
\* status is pending and whose symbol, action, type, quantity and limit price
\* are those of the request
C22_OrderIdAndEcho ==
    (last.op = "PlaceOrder" /\ last.err = "") =>
        /\ last.value /= Nil
        /\ last.resp.location = <<>> => last.value.v.ID = <<>>
        /\ last.resp.location /= <<>> =>
             /\ \A i \in 1..Len(last.value.v.ID) : last.value.v.ID[i] /= "/"
             /\ Len(last.value.v.ID) <= Len(last.resp.location)
             /\ last.value.v.ID =
                    SubSeq(last.resp.location,
                           Len(last.resp.location) - Len(last.value.v.ID) + 1,
                           Len(last.resp.location))
             /\ Len(last.value.v.ID) < Len(last.resp.location) =>
                    last.resp.location[Len(last.resp.location)
                                           - Len(last.value.v.ID)] = "/"
        /\ last.value.v.Status = OrderStatusPending
        /\ last.value.v.Symbol = last.request.v.Symbol
        /\ last.value.v.Action = last.request.v.Action
        /\ last.value.v.Type = last.request.v.Type
        /\ last.value.v.Quantity = last.request.v.Quantity
        /\ last.value.v.LimitPrice = last.request.v.LimitPrice

\* an order placed with a price, answered with the order's URL
C22_Witness ==
    /\ last.op = "PlaceOrder"
    /\ last.err = ""
    /\ last.resp.location = <<"/", "o", "/", "4", "2">>
    /\ last.value.v.ID = <<"4", "2">>
    /\ last.request.v.LimitPrice /= Nil
    /\ last.value.v.LimitPrice = last.request.v.LimitPrice

\* an order placed and accepted, answered without a Location header
C22_WitnessNoLocation ==
    /\ last.op = "PlaceOrder"
    /\ last.err = ""
    /\ last.resp.location = <<>>
    /\ last.value /= Nil
    /\ last.value.v.ID = <<>>

-----------------------------------------------------------------------------
(* C23, C24, C25: what a call does to the credential, under Spec *)

\* C23: a transport call whose refresh succeeded and that sends its business
\* request sends it with the access token of the credential the refresh put
\* in memory, not with a different one held before the call, and it stamps
\* and stores that credential before it does its check and sends the request
C23_BearerIsRefreshedToken ==
    [][(last'.op = "GetAccounts" /\ last'.refreshed /\ last'.refreshErr = ""
            /\ last'.bizReqs > 0) =>
          /\ last'.saved
          /\ last'.tokenReqs = 1
          /\ token' /= NoToken
          /\ last'.bearer = token'.access_token
          /\ token.access_token /= token'.access_token =>
                 last'.bearer /= token.access_token
          /\ last'.at <= last'.stampAt
          /\ last'.stampAt <= last'.checkAt
          /\ last'.checkAt <= now']_vars

\* a call that refreshed, then sent its request with the new access token
C23_Witness ==
    /\ last.op = "GetAccounts"
    /\ last.refreshed
    /\ last.refreshErr = ""
    /\ last.bizReqs = 1
    /\ last.bearer = "a2"
    /\ token.access_token = "a2"
    /\ last.at < last.stampAt

\* C24: a code exchange or a refresh (called directly or by a transport
\* call) that fails, on a network error, an unreadable body, a status other
\* than 200 or a body that does not parse, leaves the credential in memory
\* and the token file as they were before the call
C24_FailedCallKeepsCredentialAndFile ==
    [][(\/ last'.op = "ExchangeAuthCodeForAccessToken" /\ last'.err /= ""
        \/ last'.op \in {"refreshToken", "GetAccounts"}
              /\ last'.refreshed /\ last'.refreshErr /= "") =>
          /\ token' = token
          /\ file' = file
          /\ ~last'.saved]_vars

\* a code exchange answered with a body that does not parse, by a client
\* that holds a credential whose token file is in place
C24_Witness ==
    /\ last.op = "ExchangeAuthCodeForAccessToken"
    /\ last.err = "failed to parse token response"
    /\ token /= NoToken
    /\ file = Marshal(token)

\* a refresh inside a transport call, rejected by the vendor, by a client
\* that holds a credential whose token file is in place
C24_WitnessRefresh ==
    /\ last.op = "GetAccounts"
    /\ last.refreshed
    /\ last.refreshErr = "refresh token request failed with status"
    /\ token /= NoToken
    /\ file = Marshal(token)

\* C25 (as stated): a refresh that succeeds leaves the credential made of
\* the vendor's answer alone, so an answer without a refresh token leaves
\* none; with such a credential every refresh fails with the
\* no-refresh-token error, every transport call made once the access token
\* has expired fails, and only a code exchange puts a credential that
\* authenticates in its place
C25_StuckUntilExchange ==
    [][/\ (last'.refreshed /\ last'.refreshErr = "") =>
             /\ last'.granted /= NoToken
             /\ token' = StampExpiry(last'.granted, last'.stampAt)
       /\ (token /= NoToken /\ token.refresh_token = "") =>
             /\ last'.refreshed =>
                   /\ last'.refreshErr = "no refresh token available"
                   /\ last'.tokenReqs = 0
                   /\ token' = token
             /\ (last'.op = "GetAccounts" /\ now >= token.expires_at.wall) =>
                   (last'.err /= "" /\ last'.bizReqs = 0)
             /\ (token' /= token /\ IsAuthenticated(token', now')) =>
                   last'.op = "ExchangeAuthCodeForAccessToken"]_vars

\* C25: as above, but the credential without a refresh token stays only
\* until it is replaced: by a code exchange, which is the only call that
\* then obtains one from the token endpoint, by a credential handed to
\* SetAccessToken, or by the one SetAccessTokenFromFile finds in the token
\* file; transport calls fail from the start of the safety window on
C25_StuckUntilReplaced ==
    [][/\ (last'.refreshed /\ last'.refreshErr = "") =>
             /\ last'.granted /= NoToken
             /\ token' = StampExpiry(last'.granted, last'.stampAt)
       /\ (token /= NoToken /\ token.refresh_token = "") =>
             /\ last'.refreshed =>
                   /\ last'.refreshErr = "no refresh token available"
                   /\ last'.tokenReqs = 0
                   /\ token' = token
             /\ (last'.op = "GetAccounts" /\ NeedsRefresh(token, now)) =>
                   (last'.err /= "" /\ last'.bizReqs = 0)
             /\ (token' /= token /\ token' /= NoToken) =>
                   last'.op \in {"ExchangeAuthCodeForAccessToken", "SetAccessToken",
                                 "SetAccessTokenFromFile"}
             /\ last'.tokenReqs > 0 => last'.op = "ExchangeAuthCodeForAccessToken"]_vars

\* a refresh has succeeded with an answer that has no refresh token: the
\* credential in memory has none
C25_Witness ==
    /\ last.refreshed
    /\ last.refreshErr = ""
    /\ last.granted /= NoToken
    /\ last.granted.refresh_token = ""
    /\ token.refresh_token = ""
    /\ token.access_token = last.granted.access_token

\* a transport call made after the expiry of a credential without a refresh
\* token has failed on the no-refresh-token error
C25_WitnessStuck ==
    /\ last.op = "GetAccounts"
    /\ last.err = "failed to refresh token"
    /\ last.cause = "no refresh token available"
    /\ token.refresh_token = ""
    /\ last.at >= token.expires_at.wall

\* the same failure before the expiry, inside the safety window
C25_WitnessStuckInWindow ==
    /\ last.op = "GetAccounts"
    /\ last.err = "failed to refresh token"
    /\ last.cause = "no refresh token available"
    /\ token.refresh_token = ""
    /\ last.at < token.expires_at.wall

-----------------------------------------------------------------------------
(* cmd/oauth-flow with its scheduling, specification SpecFlowFair: a
   goroutine that can take a step takes it (the Go scheduler runs every
   runnable goroutine; the exchange returns because the HTTP client has a
   timeout), and a send and a receive that are both waiting on authCodeChan
   meet.  Nothing makes a browser send a callback. *)

FlowFairness ==
    /\ WF_vars(FlowLoad)
    /\ WF_vars(FlowListen)
    /\ WF_vars(FlowOpenBrowser)
    /\ WF_vars(\E h \in Handlers : FlowHandOff(h))
    /\ WF_vars(FlowExchange)
    /\ WF_vars(FlowCheck)
    /\ WF_vars(FlowShutdown)
    /\ WF_vars(FlowShutdownReturns)
    /\ WF_vars(FlowServerClosed)

SpecFlowFair == FlowInit /\ [][FlowNext]_vars /\ FlowFairness

\* C26 (as stated): once a code has been handed over, the server is shut
\* down and the process ends with no handler left blocked in its send on
\* authCodeChan
C26_EndsWithNoHandlerBlocked ==
    (flow.transits > 0) ~>
        (/\ flow.main = "exited"
         /\ flow.server = "closed"
         /\ \A h \in Handlers : flow.handler[h] /= "send")

\* C26: once a code has been handed over, the session closes the server's
\* listener and the process ends, whether the exchange succeeds or fails and
\* whatever other callbacks arrive
C26_EndsAfterHandOff ==
    (flow.transits > 0) ~> (flow.main = "exited" /\ flow.server = "closed")

\* the process has ended after one hand-off while the handler of a later
\* callback was still blocked in its send and server.Shutdown was waiting
\* for it
C26_Witness ==
    /\ flow.main = "exited"
    /\ flow.transits = 1
    /\ flow.session = "wait for handlers"
    /\ \E h \in Handlers : flow.handler[h] = "send"

\* the process has ended after a failed exchange
C26_WitnessFailedExchange ==
    /\ flow.main = "exited"
    /\ flow.transits = 1
    /\ flow.printed = "failed to get access token"
    /\ flow.server = "closed"

====
